---- MODULE Spec2Model ----
(***************************************************************************)
(* SkyGuard Cutdown Pro firmware: the 1 Hz flight pipeline (scheduler,     *)
(* readings snapshot, launch and termination detectors, cut rule engine,   *)
(* immediate cut sources, uplink remote cut) and the one-shot servo        *)
(* release latch.                                                          *)
(*                                                                         *)
(* The firmware is single threaded.  Every C function is an operator that  *)
(* maps the globals it reads to the globals it writes; an action is one    *)
(* call of an entry point (one pass of loop(), one servo command).  A      *)
(* behaviour is one power cycle: stateInit / servoReleaseInit run in       *)
(* setup() only.                                                           *)
(***************************************************************************)
EXTENDS Integers, Sequences, FiniteSets, TLC

VARIABLES
    millis,         \* the free-running millisecond counter at the end of the last loop() pass
    g_settings,     \* SystemConfig loaded at boot (read-only in flight)
    g_state,        \* RuntimeState
    g_readings,     \* Readings snapshot
    s_launch,       \* readings.cpp launch detection statics (baselines, persistence)
    g_errors,       \* the active error codes
    g_bucketA_true_s, g_bucketB_true_s,   \* cut_logic.cpp dwell accumulators
    iridium,        \* iridium_link.cpp statics: s_remote_cut_latched, s_last_tx_ms, s_fail_count
    sd_line,        \* the last line sdLogUpdate1Hz appended (NoLine when it wrote none)
    last_tick,      \* what the last loop() pass did: tick taken, cut inputs, decision
    hist,           \* what the ticks so far showed: consecutive-tick counts of each predicate
    sched_log,      \* the calls of stateTick1Hz made by loop() so far (kept by SpecSched)
    nvs,            \* the settings blob in non-volatile storage
    boots,          \* the last setup(): [n, load_ok, hold]
    web,            \* the last config-mode request: [op, ok, n]
    servo,          \* servo_release.cpp statics: g_attached, g_released_latched, g_state, commanded angle
    last_call,      \* the servo command of the last step: [op, ret, writes]
    n_calls,        \* number of servo commands issued so far (SpecServo)
    angle_log,      \* every angle written to g_servo since power-on, in order
    phase           \* "boot" before setup() has run the servo init, then "run";
                    \* SpecConfig: "off", "run", "config", "saved", "restart"

servoVars == <<servo, last_call, n_calls, angle_log, phase>>

flightVars == <<millis, g_settings, g_state, g_readings, s_launch, g_errors,
                g_bucketA_true_s, g_bucketB_true_s, iridium, sd_line, last_tick,
                hist, sched_log, nvs, boots, web>>

vars == <<flightVars, servoVars>>

(***************************************************************************)
(* Bounds of the model.                                                    *)
(***************************************************************************)
MaxServoCalls == 5
\* loop() stops taking ticks once t_power_s has reached MaxTicks (Spec) or
\* MaxFlightTicks (SpecFlight).
MaxTicks == 3
MaxFlightTicks == 8
\* The ticks of a flight of SpecRules.
MaxRuleTicks == 4
\* The ticks of a flight of SpecLaunch.
MaxLaunchTicks == 7
\* The ticks of a flight of SpecDescent.
MaxDescentTicks == 10
\* The passes of loop() of a run of SpecSched.
MaxSchedCalls == 5
MaxUplinkTicks == 30
MaxExtTicks == 62
\* The ticks of a flight of SpecSustain.
MaxSustainTicks == 8
\* SpecConfig: the runs of setup(), the ticks after each, the requests in one
\* stay in config mode.
MaxBoots == 2
MaxConfigTicks == 2
MaxRequests == 2
\* The most 1 Hz ticks that fall due inside one uplink session.
MaxSessionTicks == 1

(***************************************************************************)
(* servo_release: one-shot release latch                                   *)
(***************************************************************************)
SERVO_STATE_UNKNOWN  == "SERVO_STATE_UNKNOWN"
SERVO_STATE_LOCKED   == "SERVO_STATE_LOCKED"
SERVO_STATE_RELEASED == "SERVO_STATE_RELEASED"

SERVO_POS_LOCK_DEG    == 15
SERVO_POS_RELEASE_DEG == 120

\* No angle has been commanded yet.
NoAngle == -1

\* The statics before servoReleaseInit.
ServoStatics ==
    [g_attached |-> FALSE, g_released_latched |-> FALSE,
     g_state |-> SERVO_STATE_UNKNOWN, angle |-> NoAngle]

\* The result of a servo call: new statics, return value, angles written.
ServoResult(s, ret, writes) == [s |-> s, ret |-> ret, writes |-> writes]

\* ensureAttached(): attach_ok is the outcome of g_servo.attach() when it is tried.
ensureAttached(s, attach_ok) ==
    IF s.g_attached THEN ServoResult(s, TRUE, <<>>)
    ELSE IF attach_ok
         THEN ServoResult([s EXCEPT !.g_attached = TRUE], TRUE, <<>>)
         ELSE ServoResult([s EXCEPT !.g_attached = FALSE,
                                    !.g_state = SERVO_STATE_UNKNOWN], FALSE, <<>>)

writeAngleClamped(deg) ==
    IF deg < 0 THEN 0 ELSE IF deg > 180 THEN 180 ELSE deg

\* A plausible slip: the release latch is not consulted.
servoReleaseLock_NoLatchCheck(s, attach_ok) ==
    LET a == ensureAttached(s, attach_ok) IN
    IF ~a.ret THEN ServoResult(a.s, FALSE, <<>>)
    ELSE ServoResult([a.s EXCEPT !.angle = writeAngleClamped(SERVO_POS_LOCK_DEG),
                                 !.g_state = SERVO_STATE_LOCKED],
                     TRUE, <<writeAngleClamped(SERVO_POS_LOCK_DEG)>>)

servoReleaseLock(s, attach_ok) ==
    LET a == ensureAttached(s, attach_ok) IN
    IF ~a.ret THEN ServoResult(a.s, FALSE, <<>>)
    ELSE IF a.s.g_released_latched
         THEN ServoResult([a.s EXCEPT !.g_state = SERVO_STATE_RELEASED], FALSE, <<>>)
         ELSE ServoResult([a.s EXCEPT !.angle = writeAngleClamped(SERVO_POS_LOCK_DEG),
                                      !.g_state = SERVO_STATE_LOCKED],
                          TRUE, <<writeAngleClamped(SERVO_POS_LOCK_DEG)>>)

\* A plausible slip: the release is commanded again on every call.
servoReleaseRelease_NoLatchGuard(s, attach_ok) ==
    LET a == ensureAttached(s, attach_ok) IN
    IF ~a.ret THEN ServoResult(a.s, FALSE, <<>>)
    ELSE ServoResult([a.s EXCEPT !.angle = writeAngleClamped(SERVO_POS_RELEASE_DEG),
                                 !.g_released_latched = TRUE,
                                 !.g_state = SERVO_STATE_RELEASED],
                     TRUE, <<writeAngleClamped(SERVO_POS_RELEASE_DEG)>>)

servoReleaseRelease(s, attach_ok) ==
    LET a == ensureAttached(s, attach_ok) IN
    IF ~a.ret THEN ServoResult(a.s, FALSE, <<>>)
    ELSE IF ~a.s.g_released_latched
         THEN ServoResult([a.s EXCEPT !.angle = writeAngleClamped(SERVO_POS_RELEASE_DEG),
                                      !.g_released_latched = TRUE,
                                      !.g_state = SERVO_STATE_RELEASED],
                          TRUE, <<writeAngleClamped(SERVO_POS_RELEASE_DEG)>>)
         ELSE ServoResult(a.s, TRUE, <<>>)

\* A plausible slip: the wiggle goes through the latching release.
servoReleaseWiggle_Latching(s, attach_ok) ==
    LET r == servoReleaseRelease(s, attach_ok) IN
    IF ~r.ret THEN ServoResult(r.s, FALSE, <<>>)
    ELSE LET l == servoReleaseLock(r.s, TRUE) IN
         ServoResult(l.s, TRUE, r.writes \o l.writes)

\* servoReleaseWiggle() is void; ret records whether it got past ensureAttached.
servoReleaseWiggle(s, attach_ok) ==
    LET a == ensureAttached(s, attach_ok) IN
    IF ~a.ret THEN ServoResult(a.s, FALSE, <<>>)
    ELSE LET w == [a.s EXCEPT !.angle = writeAngleClamped(SERVO_POS_RELEASE_DEG)]
             \* the servo is attached here, so the nested attach is not tried
             l == servoReleaseLock(w, TRUE)
         IN ServoResult(l.s, TRUE,
                        <<writeAngleClamped(SERVO_POS_RELEASE_DEG)>> \o l.writes)

\* servoReleaseInit() is void; ret records whether it got past ensureAttached.
servoReleaseInit(s, attach_ok) ==
    LET s0 == [s EXCEPT !.g_released_latched = FALSE, !.g_state = SERVO_STATE_UNKNOWN]
        a  == ensureAttached(s0, attach_ok)
    IN IF ~a.ret THEN ServoResult(a.s, FALSE, <<>>)
       ELSE LET l == servoReleaseLock(a.s, TRUE) IN ServoResult(l.s, TRUE, l.writes)

servoReleaseIsReleased(s) == s.g_released_latched

\* The record of a servo command in last_call.
NoCall == [op |-> "none", ret |-> FALSE, writes |-> <<>>]

Call(op, r) == [op |-> op, ret |-> r.ret, writes |-> r.writes]

servoReleaseGetState(s) == s.g_state

(***************************************************************************)
(* state.cpp: runtime state, 1 Hz scheduler, latches                       *)
(***************************************************************************)
FLIGHT_GROUND     == "FLIGHT_GROUND"
FLIGHT_IN_FLIGHT  == "FLIGHT_IN_FLIGHT"
FLIGHT_TERMINATED == "FLIGHT_TERMINATED"

CUT_REASON_NONE           == "CUT_REASON_NONE"
CUT_REASON_BUCKET_LOGIC   == "CUT_REASON_BUCKET_LOGIC"
CUT_REASON_EXTERNAL_INPUT == "CUT_REASON_EXTERNAL_INPUT"
CUT_REASON_IRIDIUM_REMOTE == "CUT_REASON_IRIDIUM_REMOTE"
CUT_REASON_MANUAL         == "CUT_REASON_MANUAL"

\* uint32_t arithmetic.  TLC's integers are 32 bits wide, so a uint32_t v is held
\* as the int32_t with the same bits: v itself below 2^31, v - 2^32 from 2^31 up.
\* The operators compute the C result modulo 2^32 without leaving that range.
U32Add(a, b) ==
    LET M == 2147483647 IN
    IF a >= 0 /\ b >= 0 /\ a > M - b THEN (a - M - 1) + (b - M - 1)
    ELSE IF a < 0 /\ b < 0 /\ a < (-M - 1) - b THEN (a + M + 1) + (b + M + 1)
    ELSE a + b

U32Sub(a, b) ==
    LET M == 2147483647 IN
    IF a >= 0 /\ b < 0 /\ a > M + b THEN (a - M - 1) - (b + M + 1)
    ELSE IF a < 0 /\ b >= 0 /\ a < (-M - 1) + b THEN (a + M + 1) - (b - M - 1)
    ELSE a - b

\* a * 1000UL.  With a = q * 2^21 + r (0 <= r < 2^21), the product modulo 2^32 is
\* ((1000 q) mod 2^11) * 2^21 + 1000 r.
U32Mul1000(a) ==
    LET q  == a \div 2097152
        r  == a % 2097152
        m  == (q * 1000) % 2048
        hi == IF m >= 1024 THEN (m - 2048) * 2097152 ELSE m * 2097152
    IN U32Add(hi, r * 1000)

\* a / 1000UL (unsigned)
U32Div1000(a) ==
    IF a >= 0 THEN a \div 1000
    ELSE LET h == a + 2147483647 + 1 IN
         2147483 + (h \div 1000) + (((h % 1000) + 648) \div 1000)

\* a >= b (unsigned)
U32Ge(a, b) == IF (a >= 0) = (b >= 0) THEN a >= b ELSE a < 0

\* (int32_t)a: the same bits read as signed, which is how a is held
I32(a) == a
U16Max == 65535

\* The literals stateSetLaunchDetected stores in peak_alt_m / min_pressure_hpa.
PEAK_ALT_RESET     == -1000000000
MIN_PRESSURE_RESET == 1000000000

\* stateInit(MODE_NORMAL) at power_on_ms
stateInit(power_on_ms) ==
    [flight_state |-> FLIGHT_GROUND,
     sched_1hz |-> [initialized |-> FALSE, next_tick_ms |-> 0, last_elapsed_s |-> 0],
     power_on_ms |-> power_on_ms,
     t_power_s |-> 0,
     launch_detected |-> FALSE, launch_ms |-> 0, t_launch_s |-> 0,
     cut_fired |-> FALSE, cut_reason |-> CUT_REASON_NONE, cut_ms |-> 0,
     terminated |-> FALSE, terminated_ms |-> 0, t_terminated_s |-> 0,
     peak_alt_m |-> 0, min_pressure_hpa |-> 0, descent_count_s |-> 0]

\* A plausible slip: every emitted tick is reported as one second, however late
\* the call was.
stateTick1Hz_OneSecondPerTick(st, now_ms) ==
    LET s == st.sched_1hz IN
    IF ~s.initialized
    THEN [st |-> [st EXCEPT !.sched_1hz = [initialized |-> TRUE,
                                           next_tick_ms |-> U32Add(now_ms, 1000),
                                           last_elapsed_s |-> 0]],
          ret |-> FALSE]
    ELSE IF I32(U32Sub(now_ms, s.next_tick_ms)) < 0
    THEN [st |-> st, ret |-> FALSE]
    ELSE LET elapsed_s_u32 == U32Add(1, U32Div1000(U32Sub(now_ms, s.next_tick_ms))) IN
         [st |-> [st EXCEPT !.sched_1hz =
                     [initialized |-> TRUE,
                      next_tick_ms |-> U32Add(s.next_tick_ms, U32Mul1000(elapsed_s_u32)),
                      last_elapsed_s |-> 1]],
          ret |-> TRUE]

\* A plausible slip: the elapsed seconds are rounded up instead of down.
stateTick1Hz_RoundsUp(st, now_ms) ==
    LET s == st.sched_1hz IN
    IF ~s.initialized
    THEN [st |-> [st EXCEPT !.sched_1hz = [initialized |-> TRUE,
                                           next_tick_ms |-> U32Add(now_ms, 1000),
                                           last_elapsed_s |-> 0]],
          ret |-> FALSE]
    ELSE IF I32(U32Sub(now_ms, s.next_tick_ms)) < 0
    THEN [st |-> st, ret |-> FALSE]
    ELSE LET elapsed_s_u32 == U32Add(1, U32Div1000(U32Add(U32Sub(now_ms, s.next_tick_ms), 999))) IN
         [st |-> [st EXCEPT !.sched_1hz =
                     [initialized |-> TRUE,
                      next_tick_ms |-> U32Add(s.next_tick_ms, U32Mul1000(elapsed_s_u32)),
                      last_elapsed_s |-> IF elapsed_s_u32 > U16Max THEN U16Max
                                         ELSE elapsed_s_u32]],
          ret |-> TRUE]

\* The older scheduler's recovery: after more than 10 s the deadline is set to
\* now_ms + 1000 instead of being advanced along the 1000 ms grid.
stateTick1Hz_SnapForward(st, now_ms) ==
    LET s == st.sched_1hz IN
    IF ~s.initialized
    THEN [st |-> [st EXCEPT !.sched_1hz = [initialized |-> TRUE,
                                           next_tick_ms |-> U32Add(now_ms, 1000),
                                           last_elapsed_s |-> 0]],
          ret |-> FALSE]
    ELSE IF I32(U32Sub(now_ms, s.next_tick_ms)) < 0
    THEN [st |-> st, ret |-> FALSE]
    ELSE LET elapsed_s_u32 == U32Add(1, U32Div1000(U32Sub(now_ms, s.next_tick_ms))) IN
         [st |-> [st EXCEPT !.sched_1hz =
                     [initialized |-> TRUE,
                      next_tick_ms |-> IF elapsed_s_u32 > 10 THEN U32Add(now_ms, 1000)
                                       ELSE U32Add(s.next_tick_ms, U32Mul1000(elapsed_s_u32)),
                      last_elapsed_s |-> IF elapsed_s_u32 > U16Max THEN U16Max
                                         ELSE elapsed_s_u32]],
          ret |-> TRUE]

\* A plausible slip: the deadline is compared as unsigned values, now_ms >= deadline.
stateTick1Hz_UnsignedCompare(st, now_ms) ==
    LET s == st.sched_1hz IN
    IF ~s.initialized
    THEN [st |-> [st EXCEPT !.sched_1hz = [initialized |-> TRUE,
                                           next_tick_ms |-> U32Add(now_ms, 1000),
                                           last_elapsed_s |-> 0]],
          ret |-> FALSE]
    ELSE IF ~U32Ge(now_ms, s.next_tick_ms)
    THEN [st |-> st, ret |-> FALSE]
    ELSE LET elapsed_s_u32 == U32Add(1, U32Div1000(U32Sub(now_ms, s.next_tick_ms))) IN
         [st |-> [st EXCEPT !.sched_1hz =
                     [initialized |-> TRUE,
                      next_tick_ms |-> U32Add(s.next_tick_ms, U32Mul1000(elapsed_s_u32)),
                      last_elapsed_s |-> IF elapsed_s_u32 > U16Max THEN U16Max
                                         ELSE elapsed_s_u32]],
          ret |-> TRUE]

\* stateTick1Hz: [st, ret]
stateTick1Hz(st, now_ms) ==
    LET s == st.sched_1hz IN
    IF ~s.initialized
    THEN [st |-> [st EXCEPT !.sched_1hz = [initialized |-> TRUE,
                                           next_tick_ms |-> U32Add(now_ms, 1000),
                                           last_elapsed_s |-> 0]],
          ret |-> FALSE]
    ELSE IF I32(U32Sub(now_ms, s.next_tick_ms)) < 0
    THEN [st |-> st, ret |-> FALSE]
    ELSE LET elapsed_s_u32 == U32Add(1, U32Div1000(U32Sub(now_ms, s.next_tick_ms))) IN
         [st |-> [st EXCEPT !.sched_1hz =
                     [initialized |-> TRUE,
                      next_tick_ms |-> U32Add(s.next_tick_ms, U32Mul1000(elapsed_s_u32)),
                      last_elapsed_s |-> IF elapsed_s_u32 > U16Max THEN U16Max
                                         ELSE elapsed_s_u32]],
          ret |-> TRUE]

\* The flight state that stateOn1HzTick derives from the latches.
\* A plausible slip: the launch latch is tested before the termination latch.
DerivedFlightState_LaunchFirst(st) ==
    IF st.launch_detected THEN FLIGHT_IN_FLIGHT
    ELSE IF st.terminated THEN FLIGHT_TERMINATED
    ELSE FLIGHT_GROUND

DerivedFlightState(st) ==
    IF st.terminated THEN FLIGHT_TERMINATED
    ELSE IF st.launch_detected THEN FLIGHT_IN_FLIGHT
    ELSE FLIGHT_GROUND

\* A plausible slip: the launch latch is tested before the termination latch.
stateOn1HzTick_LaunchFirst(st) ==
    LET dt_s == IF st.sched_1hz.last_elapsed_s > 0 THEN st.sched_1hz.last_elapsed_s ELSE 1 IN
    [st EXCEPT !.t_power_s = U32Add(@, dt_s),
               !.t_launch_s = IF st.launch_detected THEN U32Add(@, dt_s) ELSE 0,
               !.t_terminated_s = IF st.terminated THEN U32Add(@, dt_s) ELSE 0,
               !.flight_state = IF st.launch_detected THEN FLIGHT_IN_FLIGHT
                                ELSE IF st.terminated THEN FLIGHT_TERMINATED
                                ELSE FLIGHT_GROUND]

stateOn1HzTick(st) ==
    LET dt_s == IF st.sched_1hz.last_elapsed_s > 0 THEN st.sched_1hz.last_elapsed_s ELSE 1 IN
    [st EXCEPT !.t_power_s = U32Add(@, dt_s),
               !.t_launch_s = IF st.launch_detected THEN U32Add(@, dt_s) ELSE 0,
               !.t_terminated_s = IF st.terminated THEN U32Add(@, dt_s) ELSE 0,
               !.flight_state = DerivedFlightState(st)]

stateSetLaunchDetected(st, now_ms) ==
    IF st.launch_detected THEN st
    ELSE [st EXCEPT !.launch_detected = TRUE,
                    !.launch_ms = now_ms,
                    !.t_launch_s = 0,
                    !.peak_alt_m = PEAK_ALT_RESET,
                    !.min_pressure_hpa = MIN_PRESSURE_RESET,
                    !.descent_count_s = 0]

\* A plausible slip: the latch is set but the flight state is left to the next tick.
stateSetTerminated_NoFlightState(st, now_ms) ==
    IF st.terminated THEN st
    ELSE [st EXCEPT !.terminated = TRUE,
                    !.terminated_ms = now_ms,
                    !.t_terminated_s = 0]

\* A plausible slip: the end of the flight also clears the launch latch.
stateSetTerminated_ClearsLaunch(st, now_ms) ==
    IF st.terminated THEN st
    ELSE [st EXCEPT !.terminated = TRUE,
                    !.terminated_ms = now_ms,
                    !.t_terminated_s = 0,
                    !.launch_detected = FALSE,
                    !.flight_state = FLIGHT_TERMINATED]

\* A plausible slip: the one-shot guard is missing, every call stamps again.
stateSetTerminated_Relatches(st, now_ms) ==
    [st EXCEPT !.terminated = TRUE,
               !.terminated_ms = now_ms,
               !.t_terminated_s = 0,
               !.flight_state = FLIGHT_TERMINATED]

stateSetTerminated(st, now_ms) ==
    IF st.terminated THEN st
    ELSE [st EXCEPT !.terminated = TRUE,
                    !.terminated_ms = now_ms,
                    !.t_terminated_s = 0,
                    !.flight_state = FLIGHT_TERMINATED]

\* A plausible slip: the reason is not stored with the latch.
stateSetCutFired_NoReason(st, reason, now_ms) ==
    IF st.cut_fired THEN st
    ELSE stateSetTerminated([st EXCEPT !.cut_fired = TRUE,
                                       !.cut_ms = now_ms], now_ms)

stateSetCutFired(st, reason, now_ms) ==
    IF st.cut_fired THEN st
    ELSE stateSetTerminated([st EXCEPT !.cut_fired = TRUE,
                                       !.cut_reason = reason,
                                       !.cut_ms = now_ms], now_ms)

\* A plausible slip: a tick without descent leaves descent_count_s as it is.
stateUpdateTerminationDetector1Hz_NoReset(st, rd, tcfg, now_ms) ==
    IF st.terminated THEN st
    ELSE IF st.flight_state # FLIGHT_IN_FLIGHT THEN st
    ELSE IF ~tcfg.enabled THEN st
    ELSE
      LET gps_path == tcfg.use_gps /\ rd.gps_fix_valid /\ rd.gps_alt_valid
          peak == IF gps_path /\ rd.gps_alt_m > st.peak_alt_m
                  THEN rd.gps_alt_m ELSE st.peak_alt_m
          gps_condition == gps_path /\ (peak - rd.gps_alt_m >= tcfg.gps_drop_m)
          p_path == tcfg.use_pressure /\ rd.pressure_valid
          minp == IF p_path /\ rd.pressure_hpa < st.min_pressure_hpa
                  THEN rd.pressure_hpa ELSE st.min_pressure_hpa
          pressure_condition == p_path /\ (rd.pressure_hpa - minp >= tcfg.pressure_rise_hpa)
          cnt == IF gps_condition \/ pressure_condition
                 THEN (IF st.descent_count_s < U16Max THEN st.descent_count_s + 1
                       ELSE st.descent_count_s)
                 ELSE st.descent_count_s
          st1 == [st EXCEPT !.peak_alt_m = peak,
                            !.min_pressure_hpa = minp,
                            !.descent_count_s = cnt]
      IN IF cnt >= tcfg.sustain_s THEN stateSetTerminated(st1, now_ms) ELSE st1

\* A plausible slip: the detector does not look at flight_state.
stateUpdateTerminationDetector1Hz_NoFlightCheck(st, rd, tcfg, now_ms) ==
    IF st.terminated THEN st
    ELSE IF ~tcfg.enabled THEN st
    ELSE
      LET gps_path == tcfg.use_gps /\ rd.gps_fix_valid /\ rd.gps_alt_valid
          peak == IF gps_path /\ rd.gps_alt_m > st.peak_alt_m
                  THEN rd.gps_alt_m ELSE st.peak_alt_m
          gps_condition == gps_path /\ (peak - rd.gps_alt_m >= tcfg.gps_drop_m)
          p_path == tcfg.use_pressure /\ rd.pressure_valid
          minp == IF p_path /\ rd.pressure_hpa < st.min_pressure_hpa
                  THEN rd.pressure_hpa ELSE st.min_pressure_hpa
          pressure_condition == p_path /\ (rd.pressure_hpa - minp >= tcfg.pressure_rise_hpa)
          cnt == IF gps_condition \/ pressure_condition
                 THEN (IF st.descent_count_s < U16Max THEN st.descent_count_s + 1
                       ELSE st.descent_count_s)
                 ELSE 0
          st1 == [st EXCEPT !.peak_alt_m = peak,
                            !.min_pressure_hpa = minp,
                            !.descent_count_s = cnt]
      IN IF cnt >= tcfg.sustain_s THEN stateSetTerminated(st1, now_ms) ELSE st1

\* stateUpdateTerminationDetector1Hz; rd is g_readings, tcfg is g_settings.term
stateUpdateTerminationDetector1Hz(st, rd, tcfg, now_ms) ==
    IF st.terminated THEN st
    ELSE IF st.flight_state # FLIGHT_IN_FLIGHT THEN st
    ELSE IF ~tcfg.enabled THEN st
    ELSE
      LET gps_path == tcfg.use_gps /\ rd.gps_fix_valid /\ rd.gps_alt_valid
          peak == IF gps_path /\ rd.gps_alt_m > st.peak_alt_m
                  THEN rd.gps_alt_m ELSE st.peak_alt_m
          gps_condition == gps_path /\ (peak - rd.gps_alt_m >= tcfg.gps_drop_m)
          p_path == tcfg.use_pressure /\ rd.pressure_valid
          minp == IF p_path /\ rd.pressure_hpa < st.min_pressure_hpa
                  THEN rd.pressure_hpa ELSE st.min_pressure_hpa
          pressure_condition == p_path /\ (rd.pressure_hpa - minp >= tcfg.pressure_rise_hpa)
          descent_now == gps_condition \/ pressure_condition
          cnt == IF descent_now
                 THEN (IF st.descent_count_s < U16Max THEN st.descent_count_s + 1
                       ELSE st.descent_count_s)
                 ELSE 0
          st1 == [st EXCEPT !.peak_alt_m = peak,
                            !.min_pressure_hpa = minp,
                            !.descent_count_s = cnt]
      IN IF cnt >= tcfg.sustain_s THEN stateSetTerminated(st1, now_ms) ELSE st1

(***************************************************************************)
(* errors.cpp: sticky error registry (the set of active codes)             *)
(***************************************************************************)
ERR_ENV_SENSOR  == "ERR_ENV_SENSOR"
ERR_SD_MISSING  == "ERR_SD_MISSING"
ERR_SD_IO       == "ERR_SD_IO"
ERR_GPS         == "ERR_GPS"
ERR_IRIDIUM     == "ERR_IRIDIUM"
ERR_UNSPECIFIED == "ERR_UNSPECIFIED"

ErrorCodes ==
    {ERR_ENV_SENSOR, ERR_SD_MISSING, ERR_SD_IO, ERR_GPS, ERR_IRIDIUM, ERR_UNSPECIFIED}

ERROR_SEV_WARN == "ERROR_SEV_WARN"
ERROR_SEV_CRIT == "ERROR_SEV_CRIT"

errorSeverityMap(code) ==
    IF code = ERR_SD_MISSING THEN ERROR_SEV_WARN ELSE ERROR_SEV_CRIT

errorSet(errs, code) == errs \cup {code}

errorClear(errs, code) == errs \ {code}

errorIsActive(errs, code) == code \in errs

errorsAnyCriticalActive(errs) ==
    \E code \in errs : errorSeverityMap(code) = ERROR_SEV_CRIT

(***************************************************************************)
(* readings.cpp: per-tick snapshot, external input debounce, launch latch  *)
(***************************************************************************)
NUM_EXTERNAL_INPUTS == 2

LAUNCH_GPS_ALT_RISE_M     == 30
LAUNCH_PRESSURE_DROP_HPA  == 5
LAUNCH_PERSIST_REQUIRED_S == 5

\* The cap of active_accum_ms.
EXT_ACCUM_CAP_MS == 60000

ExtIdx == 0..(NUM_EXTERNAL_INPUTS - 1)

\* readingsInit(): memset, clearSensors, initExternalInputs
readingsInit ==
    [gps_fix_valid |-> FALSE, gps_fix |-> FALSE,
     gps_lat_valid |-> FALSE, gps_lat_deg |-> 0,
     gps_lon_valid |-> FALSE, gps_lon_deg |-> 0,
     gps_alt_valid |-> FALSE, gps_alt_m |-> 0,
     pressure_valid |-> FALSE, pressure_hpa |-> 0,
     temp_valid |-> FALSE, temp_c |-> 0,
     humidity_valid |-> FALSE, humidity_pct |-> 0,
     ext |-> [i \in ExtIdx |-> [raw_active |-> FALSE, debounced_active |-> FALSE,
                                active_accum_ms |-> 0]]]

\* resetLaunchDetectionRuntime()
resetLaunchDetectionRuntime ==
    [base_gps_valid |-> FALSE, base_gps_alt_m |-> 0,
     base_baro_valid |-> FALSE, base_pressure_hpa |-> 0,
     persist_s |-> 0]

\* levelToActive: pin_high is digitalRead(pin) == HIGH
levelToActive(pin_high, active_high) ==
    IF active_high THEN pin_high ELSE ~pin_high

\* A plausible slip: the debounce comparison is strict (> for >=).
updateExternalInput1Hz_StrictDebounce(e, xcfg, pin_high) ==
    IF ~xcfg.enabled
    THEN [raw_active |-> FALSE, debounced_active |-> FALSE, active_accum_ms |-> 0]
    ELSE LET raw_active == levelToActive(pin_high, xcfg.active_high)
             acc0 == IF raw_active THEN e.active_accum_ms + 1000 ELSE 0
             acc  == IF acc0 > EXT_ACCUM_CAP_MS THEN EXT_ACCUM_CAP_MS ELSE acc0
         IN [raw_active |-> raw_active,
             debounced_active |-> (acc > xcfg.debounce_ms),
             active_accum_ms |-> acc]

\* updateExternalInput1Hz for one channel: the new ExternalInputReading
updateExternalInput1Hz(e, xcfg, pin_high) ==
    IF ~xcfg.enabled
    THEN [raw_active |-> FALSE, debounced_active |-> FALSE, active_accum_ms |-> 0]
    ELSE LET raw_active == levelToActive(pin_high, xcfg.active_high)
             acc0 == IF raw_active THEN e.active_accum_ms + 1000 ELSE 0
             acc  == IF acc0 > EXT_ACCUM_CAP_MS THEN EXT_ACCUM_CAP_MS ELSE acc0
         IN [raw_active |-> raw_active,
             debounced_active |-> (acc >= xcfg.debounce_ms),
             active_accum_ms |-> acc]

\* A plausible slip: a tick without launch candidate leaves the persistence
\* count as it is.
launchDetect_NoReset(st, la, rd, errs, now_ms) ==
    IF st.launch_detected THEN [st |-> st, la |-> la]
    ELSE IF errorsAnyCriticalActive(errs)
    THEN [st |-> st, la |-> [la EXCEPT !.persist_s = 0]]
    ELSE
      LET la1 == IF ~la.base_gps_valid /\ rd.gps_alt_valid
                 THEN [la EXCEPT !.base_gps_alt_m = rd.gps_alt_m, !.base_gps_valid = TRUE]
                 ELSE la
          la2 == IF ~la1.base_baro_valid /\ rd.pressure_valid
                 THEN [la1 EXCEPT !.base_pressure_hpa = rd.pressure_hpa,
                                  !.base_baro_valid = TRUE]
                 ELSE la1
          cand_gps == /\ la2.base_gps_valid /\ rd.gps_alt_valid
                      /\ rd.gps_alt_m - la2.base_gps_alt_m >= LAUNCH_GPS_ALT_RISE_M
          cand_baro == /\ la2.base_baro_valid /\ rd.pressure_valid
                       /\ la2.base_pressure_hpa - rd.pressure_hpa >= LAUNCH_PRESSURE_DROP_HPA
          persist == IF cand_gps \/ cand_baro
                     THEN (IF la2.persist_s < 255 THEN la2.persist_s + 1 ELSE la2.persist_s)
                     ELSE la2.persist_s
          la3 == [la2 EXCEPT !.persist_s = persist]
      IN [st |-> IF persist >= LAUNCH_PERSIST_REQUIRED_S
                 THEN stateSetLaunchDetected(st, now_ms) ELSE st,
          la |-> la3]

\* A plausible slip: launch detection does not look at the error registry.
launchDetect_IgnoresErrors(st, la, rd, errs, now_ms) ==
    IF st.launch_detected THEN [st |-> st, la |-> la]
    ELSE
      LET la1 == IF ~la.base_gps_valid /\ rd.gps_alt_valid
                 THEN [la EXCEPT !.base_gps_alt_m = rd.gps_alt_m, !.base_gps_valid = TRUE]
                 ELSE la
          la2 == IF ~la1.base_baro_valid /\ rd.pressure_valid
                 THEN [la1 EXCEPT !.base_pressure_hpa = rd.pressure_hpa,
                                  !.base_baro_valid = TRUE]
                 ELSE la1
          cand_gps == /\ la2.base_gps_valid /\ rd.gps_alt_valid
                      /\ rd.gps_alt_m - la2.base_gps_alt_m >= LAUNCH_GPS_ALT_RISE_M
          cand_baro == /\ la2.base_baro_valid /\ rd.pressure_valid
                       /\ la2.base_pressure_hpa - rd.pressure_hpa >= LAUNCH_PRESSURE_DROP_HPA
          persist == IF cand_gps \/ cand_baro
                     THEN (IF la2.persist_s < 255 THEN la2.persist_s + 1 ELSE la2.persist_s)
                     ELSE 0
          la3 == [la2 EXCEPT !.persist_s = persist]
      IN [st |-> IF persist >= LAUNCH_PERSIST_REQUIRED_S
                 THEN stateSetLaunchDetected(st, now_ms) ELSE st,
          la |-> la3]

\* The launch detection block of readingsUpdate1Hz: [st, la]
launchDetect(st, la, rd, errs, now_ms) ==
    IF st.launch_detected THEN [st |-> st, la |-> la]
    ELSE IF errorsAnyCriticalActive(errs)
    THEN [st |-> st, la |-> [la EXCEPT !.persist_s = 0]]
    ELSE
      LET la1 == IF ~la.base_gps_valid /\ rd.gps_alt_valid
                 THEN [la EXCEPT !.base_gps_alt_m = rd.gps_alt_m, !.base_gps_valid = TRUE]
                 ELSE la
          la2 == IF ~la1.base_baro_valid /\ rd.pressure_valid
                 THEN [la1 EXCEPT !.base_pressure_hpa = rd.pressure_hpa,
                                  !.base_baro_valid = TRUE]
                 ELSE la1
          cand_gps == /\ la2.base_gps_valid /\ rd.gps_alt_valid
                      /\ rd.gps_alt_m - la2.base_gps_alt_m >= LAUNCH_GPS_ALT_RISE_M
          cand_baro == /\ la2.base_baro_valid /\ rd.pressure_valid
                       /\ la2.base_pressure_hpa - rd.pressure_hpa >= LAUNCH_PRESSURE_DROP_HPA
          launch_candidate == cand_gps \/ cand_baro
          persist == IF launch_candidate
                     THEN (IF la2.persist_s < 255 THEN la2.persist_s + 1 ELSE la2.persist_s)
                     ELSE 0
          la3 == [la2 EXCEPT !.persist_s = persist]
      IN [st |-> IF persist >= LAUNCH_PERSIST_REQUIRED_S
                 THEN stateSetLaunchDetected(st, now_ms) ELSE st,
          la |-> la3]

\* readingsUpdate1Hz: [rd, st, la, errs].  env is what the drivers return this
\* tick: pin levels, BME680 reading, TinyGPS++ validity/freshness and values.
readingsUpdate1Hz(rd, st, la, errs, cfg, env, now_ms) ==
    LET ext1 == [i \in ExtIdx |->
                   updateExternalInput1Hz(rd.ext[i], cfg.external_inputs[i], env.pin_high[i])]
        errs1 == IF env.bme_ok THEN errorClear(errs, ERR_ENV_SENSOR)
                 ELSE errorSet(errs, ERR_ENV_SENSOR)
        rd1 == IF env.bme_ok
               THEN [rd EXCEPT !.ext = ext1,
                               !.temp_c = env.temp_c, !.temp_valid = TRUE,
                               !.humidity_pct = env.humidity_pct, !.humidity_valid = TRUE,
                               !.pressure_hpa = env.pressure_hpa, !.pressure_valid = TRUE]
               ELSE [rd EXCEPT !.ext = ext1,
                               !.temp_valid = FALSE, !.humidity_valid = FALSE,
                               !.pressure_valid = FALSE]
        rd2 == [rd1 EXCEPT !.gps_fix_valid = ~errorIsActive(errs1, ERR_GPS),
                           !.gps_fix = env.loc_ok,
                           !.gps_lat_deg = IF env.loc_ok THEN env.lat_deg ELSE @,
                           !.gps_lon_deg = IF env.loc_ok THEN env.lon_deg ELSE @,
                           !.gps_lat_valid = env.loc_ok,
                           !.gps_lon_valid = env.loc_ok,
                           !.gps_alt_m = IF env.alt_ok THEN env.alt_m ELSE @,
                           !.gps_alt_valid = env.alt_ok]
        l == launchDetect(st, la, rd2, errs1, now_ms)
    IN [rd |-> rd2, st |-> l.st, la |-> l.la, errs |-> errs1]

(***************************************************************************)
(* cut_logic.cpp: bucket rule engine and immediate cut sources             *)
(***************************************************************************)
MAX_BUCKET_CONDITIONS == 10

VAR_T_POWER_S    == 0
VAR_T_LAUNCH_S   == 1
VAR_GPS_ALT_M    == 2
VAR_GPS_LAT_DEG  == 3
VAR_GPS_LON_DEG  == 4
VAR_GPS_FIX      == 5
VAR_PRESSURE_HPA == 6
VAR_TEMP_C       == 7
VAR_HUMIDITY_PCT == 8
VAR__COUNT       == 9

OP_LT  == 0
OP_LTE == 1
OP_EQ  == 2
OP_GTE == 3
OP_GT  == 4

VarIds  == 0..(VAR__COUNT - 1)
CondIdx == 0..(MAX_BUCKET_CONDITIONS - 1)

\* resetAccumulators(): one bucket's array zeroed
ZeroAccum == [i \in CondIdx |-> 0]

compare(lhs, op, rhs) ==
    CASE op = OP_LT  -> lhs < rhs
      [] op = OP_LTE -> lhs <= rhs
      [] op = OP_EQ  -> lhs = rhs
      [] op = OP_GTE -> lhs >= rhs
      [] op = OP_GT  -> lhs > rhs
      [] OTHER       -> FALSE

\* A plausible slip: the dwell comparison is strict.
evalCondition1Hz_StrictDwell(c, var_value, var_valid, accum_s) ==
    IF ~var_valid THEN [ok |-> FALSE, accum |-> 0]
    ELSE IF ~compare(var_value, c.op, c.value) THEN [ok |-> FALSE, accum |-> 0]
    ELSE IF c.for_seconds = 0 THEN [ok |-> TRUE, accum |-> 0]
    ELSE [ok |-> (accum_s + 1 > c.for_seconds), accum |-> accum_s + 1]

\* evalCondition1Hz: [ok, accum].  Sample values and thresholds are finite.
evalCondition1Hz(c, var_value, var_valid, accum_s) ==
    IF ~var_valid THEN [ok |-> FALSE, accum |-> 0]
    ELSE IF ~compare(var_value, c.op, c.value) THEN [ok |-> FALSE, accum |-> 0]
    ELSE IF c.for_seconds = 0 THEN [ok |-> TRUE, accum |-> 0]
    ELSE [ok |-> (accum_s + 1 >= c.for_seconds), accum |-> accum_s + 1]

\* One pass of the loop body of evalBucketA1Hz at slot i: [cont, accum], cont
\* FALSE where the function returns false.
bucketASlot(bucketA, in, acc, i) ==
    LET c == bucketA[i] IN
    IF ~c.enabled THEN [cont |-> TRUE, accum |-> 0]
    ELSE IF c.var_id >= VAR__COUNT THEN [cont |-> FALSE, accum |-> 0]
    ELSE LET r == evalCondition1Hz(c, in.vars[c.var_id], in.vars_valid[c.var_id], acc[i])
         IN [cont |-> r.ok, accum |-> r.accum]

\* The slot at which a bucket loop returns early (MAX_BUCKET_CONDITIONS if none).
FirstStop(stops) ==
    IF stops = {} THEN MAX_BUCKET_CONDITIONS
    ELSE CHOOSE i \in stops : \A j \in stops : i <= j

\* evalBucketA1Hz: [ok, acc].  The loop returns at the first unsatisfied slot, so
\* the accumulators of the slots after it keep their values.
evalBucketA1Hz(bucketA, in, acc) ==
    LET stop == FirstStop({i \in CondIdx : ~bucketASlot(bucketA, in, acc, i).cont})
    IN [ok |-> (stop = MAX_BUCKET_CONDITIONS),
        acc |-> [i \in CondIdx |-> IF i <= stop THEN bucketASlot(bucketA, in, acc, i).accum
                                   ELSE acc[i]]]

\* One pass of the loop body of evalBucketB1Hz at slot i: [hit, accum], hit TRUE
\* where the function returns true.
bucketBSlot(bucketB, in, acc, i) ==
    LET c == bucketB[i] IN
    IF ~c.enabled \/ c.var_id >= VAR__COUNT THEN [hit |-> FALSE, accum |-> 0]
    ELSE LET r == evalCondition1Hz(c, in.vars[c.var_id], in.vars_valid[c.var_id], acc[i])
         IN [hit |-> r.ok, accum |-> r.accum]

\* A plausible slip: a Bucket B without enabled conditions is vacuously true,
\* as Bucket A is.
evalBucketB1Hz_EmptyTrue(bucketB, in, acc) ==
    LET stop == FirstStop({i \in CondIdx : bucketBSlot(bucketB, in, acc, i).hit})
    IN [ok |-> \/ stop < MAX_BUCKET_CONDITIONS
               \/ \A i \in CondIdx : ~bucketB[i].enabled,
        acc |-> [i \in CondIdx |-> IF i <= stop THEN bucketBSlot(bucketB, in, acc, i).accum
                                   ELSE acc[i]]]

\* evalBucketB1Hz: [ok, acc].  The loop returns at the first satisfied slot.
evalBucketB1Hz(bucketB, in, acc) ==
    LET stop == FirstStop({i \in CondIdx : bucketBSlot(bucketB, in, acc, i).hit})
    IN [ok |-> (stop < MAX_BUCKET_CONDITIONS),
        acc |-> [i \in CondIdx |-> IF i <= stop THEN bucketBSlot(bucketB, in, acc, i).accum
                                   ELSE acc[i]]]

globalsAllowRuleCut(gc, in) ==
    /\ ~(gc.require_launch_before_cut /\ ~in.launch_detected)
    /\ ~(gc.require_gps_fix_before_cut /\ ~in.gps_fix_present)

\* A plausible slip: the launch gate input is taken from flight_state, which is
\* derived at the start of the tick.
readingsFillCutLogicInputs_FromFlightState(st, rd) ==
    [vars |-> [v \in VarIds |->
        CASE v = VAR_T_POWER_S    -> st.t_power_s
          [] v = VAR_T_LAUNCH_S   -> st.t_launch_s
          [] v = VAR_GPS_ALT_M    -> IF rd.gps_alt_valid THEN rd.gps_alt_m ELSE 0
          [] v = VAR_GPS_LAT_DEG  -> IF rd.gps_lat_valid THEN rd.gps_lat_deg ELSE 0
          [] v = VAR_GPS_LON_DEG  -> IF rd.gps_lon_valid THEN rd.gps_lon_deg ELSE 0
          [] v = VAR_GPS_FIX      -> IF rd.gps_fix_valid /\ rd.gps_fix THEN 1 ELSE 0
          [] v = VAR_PRESSURE_HPA -> IF rd.pressure_valid THEN rd.pressure_hpa ELSE 0
          [] v = VAR_TEMP_C       -> IF rd.temp_valid THEN rd.temp_c ELSE 0
          [] OTHER                -> IF rd.humidity_valid THEN rd.humidity_pct ELSE 0],
     vars_valid |-> [v \in VarIds |->
        CASE v = VAR_T_POWER_S    -> TRUE
          [] v = VAR_T_LAUNCH_S   -> TRUE
          [] v = VAR_GPS_ALT_M    -> rd.gps_alt_valid
          [] v = VAR_GPS_LAT_DEG  -> rd.gps_lat_valid
          [] v = VAR_GPS_LON_DEG  -> rd.gps_lon_valid
          [] v = VAR_GPS_FIX      -> rd.gps_fix_valid
          [] v = VAR_PRESSURE_HPA -> rd.pressure_valid
          [] v = VAR_TEMP_C       -> rd.temp_valid
          [] OTHER                -> rd.humidity_valid],
     launch_detected |-> (st.flight_state # FLIGHT_GROUND),
     gps_fix_present |-> (rd.gps_fix_valid /\ rd.gps_fix),
     external_cut_active |-> [i \in ExtIdx |-> rd.ext[i].debounced_active],
     iridium_remote_cut_request |-> FALSE]

\* cutLogicInitInputs + readingsFillCutLogicInputs
readingsFillCutLogicInputs(st, rd) ==
    [vars |-> [v \in VarIds |->
        CASE v = VAR_T_POWER_S    -> st.t_power_s
          [] v = VAR_T_LAUNCH_S   -> st.t_launch_s
          [] v = VAR_GPS_ALT_M    -> IF rd.gps_alt_valid THEN rd.gps_alt_m ELSE 0
          [] v = VAR_GPS_LAT_DEG  -> IF rd.gps_lat_valid THEN rd.gps_lat_deg ELSE 0
          [] v = VAR_GPS_LON_DEG  -> IF rd.gps_lon_valid THEN rd.gps_lon_deg ELSE 0
          [] v = VAR_GPS_FIX      -> IF rd.gps_fix_valid /\ rd.gps_fix THEN 1 ELSE 0
          [] v = VAR_PRESSURE_HPA -> IF rd.pressure_valid THEN rd.pressure_hpa ELSE 0
          [] v = VAR_TEMP_C       -> IF rd.temp_valid THEN rd.temp_c ELSE 0
          [] OTHER                -> IF rd.humidity_valid THEN rd.humidity_pct ELSE 0],
     vars_valid |-> [v \in VarIds |->
        CASE v = VAR_T_POWER_S    -> TRUE
          [] v = VAR_T_LAUNCH_S   -> TRUE
          [] v = VAR_GPS_ALT_M    -> rd.gps_alt_valid
          [] v = VAR_GPS_LAT_DEG  -> rd.gps_lat_valid
          [] v = VAR_GPS_LON_DEG  -> rd.gps_lon_valid
          [] v = VAR_GPS_FIX      -> rd.gps_fix_valid
          [] v = VAR_PRESSURE_HPA -> rd.pressure_valid
          [] v = VAR_TEMP_C       -> rd.temp_valid
          [] OTHER                -> rd.humidity_valid],
     launch_detected |-> st.launch_detected,
     gps_fix_present |-> (rd.gps_fix_valid /\ rd.gps_fix),
     external_cut_active |-> [i \in ExtIdx |-> rd.ext[i].debounced_active],
     iridium_remote_cut_request |-> FALSE]

NoCut == [should_cut |-> FALSE, reason |-> CUT_REASON_NONE]

Decision(d, accA, accB) == [d |-> d, accA |-> accA, accB |-> accB]

\* A plausible slip: a blocked gate leaves the dwell accumulators as they are.
ruleCut_NoGateReset(cfg, in, accA, accB) ==
    IF ~globalsAllowRuleCut(cfg.global_cutdown, in)
    THEN Decision(NoCut, accA, accB)
    ELSE LET a == evalBucketA1Hz(cfg.bucketA, in, accA)
             b == evalBucketB1Hz(cfg.bucketB, in, accB)
         IN IF a.ok /\ b.ok
            THEN Decision([should_cut |-> TRUE, reason |-> CUT_REASON_BUCKET_LOGIC],
                          a.acc, b.acc)
            ELSE Decision(NoCut, a.acc, b.acc)

\* The rule-based part of cutLogicEvaluate1Hz (priority 2).
ruleCut(cfg, in, accA, accB) ==
    IF ~globalsAllowRuleCut(cfg.global_cutdown, in)
    THEN Decision(NoCut, ZeroAccum, ZeroAccum)
    ELSE LET a == evalBucketA1Hz(cfg.bucketA, in, accA)
             b == evalBucketB1Hz(cfg.bucketB, in, accB)
         IN IF a.ok /\ b.ok
            THEN Decision([should_cut |-> TRUE, reason |-> CUT_REASON_BUCKET_LOGIC],
                          a.acc, b.acc)
            ELSE Decision(NoCut, a.acc, b.acc)

\* A plausible slip: the remote request is tested before the external inputs.
cutLogicEvaluate1Hz_RemoteFirst(cut_fired, cfg, in, accA, accB) ==
    IF cut_fired THEN Decision(NoCut, accA, accB)
    ELSE IF /\ cfg.iridium.enabled
            /\ cfg.iridium.cutdown_on_command
            /\ in.iridium_remote_cut_request
    THEN Decision([should_cut |-> TRUE, reason |-> CUT_REASON_IRIDIUM_REMOTE], accA, accB)
    ELSE IF \E i \in ExtIdx : cfg.external_inputs[i].enabled /\ in.external_cut_active[i]
    THEN Decision([should_cut |-> TRUE, reason |-> CUT_REASON_EXTERNAL_INPUT], accA, accB)
    ELSE ruleCut(cfg, in, accA, accB)

\* A plausible slip: no early return once the cut has fired.
cutLogicEvaluate1Hz_NoFiredCheck(cut_fired, cfg, in, accA, accB) ==
    IF \E i \in ExtIdx : cfg.external_inputs[i].enabled /\ in.external_cut_active[i]
    THEN Decision([should_cut |-> TRUE, reason |-> CUT_REASON_EXTERNAL_INPUT], accA, accB)
    ELSE IF /\ cfg.iridium.enabled
            /\ cfg.iridium.cutdown_on_command
            /\ in.iridium_remote_cut_request
    THEN Decision([should_cut |-> TRUE, reason |-> CUT_REASON_IRIDIUM_REMOTE], accA, accB)
    ELSE ruleCut(cfg, in, accA, accB)

\* A plausible slip: the remote request is not looked at.
cutLogicEvaluate1Hz_NoRemote(cut_fired, cfg, in, accA, accB) ==
    IF cut_fired THEN Decision(NoCut, accA, accB)
    ELSE IF \E i \in ExtIdx : cfg.external_inputs[i].enabled /\ in.external_cut_active[i]
    THEN Decision([should_cut |-> TRUE, reason |-> CUT_REASON_EXTERNAL_INPUT], accA, accB)
    ELSE ruleCut(cfg, in, accA, accB)

\* A plausible slip: the global gates are tested before the immediate sources.
cutLogicEvaluate1Hz_GatesFirst(cut_fired, cfg, in, accA, accB) ==
    IF cut_fired THEN Decision(NoCut, accA, accB)
    ELSE IF ~globalsAllowRuleCut(cfg.global_cutdown, in)
    THEN Decision(NoCut, ZeroAccum, ZeroAccum)
    ELSE IF \E i \in ExtIdx : cfg.external_inputs[i].enabled /\ in.external_cut_active[i]
    THEN Decision([should_cut |-> TRUE, reason |-> CUT_REASON_EXTERNAL_INPUT], accA, accB)
    ELSE IF /\ cfg.iridium.enabled
            /\ cfg.iridium.cutdown_on_command
            /\ in.iridium_remote_cut_request
    THEN Decision([should_cut |-> TRUE, reason |-> CUT_REASON_IRIDIUM_REMOTE], accA, accB)
    ELSE ruleCut(cfg, in, accA, accB)

\* cutLogicEvaluate1Hz: [d, accA, accB]
cutLogicEvaluate1Hz(cut_fired, cfg, in, accA, accB) ==
    IF cut_fired THEN Decision(NoCut, accA, accB)
    ELSE IF \E i \in ExtIdx : cfg.external_inputs[i].enabled /\ in.external_cut_active[i]
    THEN Decision([should_cut |-> TRUE, reason |-> CUT_REASON_EXTERNAL_INPUT], accA, accB)
    ELSE IF /\ cfg.iridium.enabled
            /\ cfg.iridium.cutdown_on_command
            /\ in.iridium_remote_cut_request
    THEN Decision([should_cut |-> TRUE, reason |-> CUT_REASON_IRIDIUM_REMOTE], accA, accB)
    ELSE ruleCut(cfg, in, accA, accB)

(***************************************************************************)
(* sd_log.cpp: the per-tick log record                                     *)
(***************************************************************************)
NoLine == [written |-> FALSE]

\* The TSV line sdLogUpdate1Hz builds (the fields the flight core owns).
LogLine(st, rd) ==
    [written |-> TRUE,
     t_power_s |-> st.t_power_s,
     launch_detected |-> st.launch_detected,
     cut_fired |-> st.cut_fired,
     cut_reason |-> st.cut_reason,
     gps_fix |-> (rd.gps_fix_valid /\ rd.gps_fix)]

\* sdLogUpdate1Hz: [errs, line].  sd is the card this tick: "ok", "missing"
\* (card detect says absent) or "io_fail" (mount, open or write fails).
sdLogUpdate1Hz(errs, st, rd, sd) ==
    CASE sd = "missing" ->
           [errs |-> errorClear(errorSet(errs, ERR_SD_MISSING), ERR_SD_IO), line |-> NoLine]
      [] sd = "io_fail" ->
           [errs |-> errorSet(errorClear(errs, ERR_SD_MISSING), ERR_SD_IO), line |-> NoLine]
      [] OTHER ->
           [errs |-> errorClear(errorClear(errs, ERR_SD_MISSING), ERR_SD_IO),
            line |-> LogLine(st, rd)]

(***************************************************************************)
(* iridium_link.cpp: telemetry cadence, uplink session, remote cut latch   *)
(***************************************************************************)
IRIDIUM_FAILS_BEFORE_ERROR == 3

\* No MT message was waiting (rxLen == 0).
NoMsg == [present |-> FALSE]

\* An MT message: wellformed is "CUT,<digits>,<token>" with at most 7 digits.
Msg(wellformed, serial, token) ==
    [present |-> TRUE, wellformed |-> wellformed, serial |-> serial, token |-> token]

\* iridiumInit(): begin_ok is the outcome of modem.begin()
iridiumInit(icfg, begin_ok) ==
    [remote_cut_latched |-> FALSE, last_tx_ms |-> 0,
     fail_count |-> IF icfg.enabled /\ ~begin_ok THEN 1 ELSE 0]

\* A plausible slip: the descent window ends one second early (< for <=).
currentTxIntervalS_WindowExclusive(st, icfg) ==
    IF ~st.launch_detected THEN icfg.ground_interval_s
    ELSE IF ~st.terminated THEN icfg.ascent_interval_s
    ELSE IF icfg.descent_duration_s = 0 THEN icfg.beacon_interval_s
    ELSE IF st.t_terminated_s < icfg.descent_duration_s THEN icfg.descent_interval_s
    ELSE icfg.beacon_interval_s

currentTxIntervalS(st, icfg) ==
    IF ~st.launch_detected THEN icfg.ground_interval_s
    ELSE IF ~st.terminated THEN icfg.ascent_interval_s
    ELSE IF icfg.descent_duration_s = 0 THEN icfg.beacon_interval_s
    ELSE IF st.t_terminated_s <= icfg.descent_duration_s THEN icfg.descent_interval_s
    ELSE icfg.beacon_interval_s

parseCutCommand(msg, cfg) ==
    /\ msg.wellformed
    /\ msg.serial = cfg.device.serial_number
    /\ cfg.iridium.cutdown_on_command
    /\ msg.token = cfg.iridium.cutdown_token

\* A plausible slip: a command is refused after a cut but not after termination.
handleRxMessage_IgnoresTermination(ir, st, cfg, msg) ==
    IF ~msg.present THEN ir
    ELSE IF st.cut_fired THEN ir
    ELSE IF parseCutCommand(msg, cfg) THEN [ir EXCEPT !.remote_cut_latched = TRUE]
    ELSE ir

\* handleRxMessage: the new iridium statics
handleRxMessage(ir, st, cfg, msg) ==
    IF ~msg.present THEN ir
    ELSE IF st.cut_fired \/ st.terminated THEN ir
    ELSE IF parseCutCommand(msg, cfg) THEN [ir EXCEPT !.remote_cut_latched = TRUE]
    ELSE ir

\* iridiumGetRemoteCutRequestAndClear: [ir, ret]
iridiumGetRemoteCutRequestAndClear(ir) ==
    [ir |-> [ir EXCEPT !.remote_cut_latched = FALSE], ret |-> ir.remote_cut_latched]

\* One ISBDCallback -> iridiumServiceDuringSession at time now_ms: [st, errs, line]
iridiumServiceDuringSession(st, rd, errs, line, cfg, sd, now_ms) ==
    LET t == stateTick1Hz(st, now_ms) IN
    IF ~t.ret THEN [st |-> t.st, errs |-> errs, line |-> line]
    ELSE LET st1 == stateOn1HzTick(t.st)
             st2 == stateUpdateTerminationDetector1Hz(st1, rd, cfg.term, now_ms)
             l   == sdLogUpdate1Hz(errs, st2, rd, sd)
         IN [st |-> st2, errs |-> l.errs, line |-> l.line]

\* The callbacks of one session: k of them find a tick due, each at its deadline.
RECURSIVE sessionCallbacks(_, _, _, _, _, _, _, _)
sessionCallbacks(k, st, rd, errs, line, cfg, sd, now_ms) ==
    IF k = 0 THEN [st |-> st, errs |-> errs, line |-> line, now_ms |-> now_ms]
    ELSE LET at == st.sched_1hz.next_tick_ms
             r  == iridiumServiceDuringSession(st, rd, errs, line, cfg, sd, at)
         IN sessionCallbacks(k - 1, r.st, rd, r.errs, r.line, cfg, sd, at)

\* Whether iridiumUpdate1Hz starts a session on this tick.
sessionDue(ir, st, cfg, now_ms) ==
    /\ cfg.iridium.enabled
    /\ currentTxIntervalS(st, cfg.iridium) > 0
    /\ \/ ir.last_tx_ms = 0
       \/ U32Ge(U32Sub(now_ms, ir.last_tx_ms),
                U32Mul1000(currentTxIntervalS(st, cfg.iridium)))

\* iridiumUpdate1Hz: [ir, st, errs, line, now_ms (millis() when it returns)].
\* sess is the session the modem gives: [ticks, ok, rx].
iridiumUpdate1Hz(ir, st, rd, errs, line, cfg, sd, sess, now_ms) ==
    IF ~cfg.iridium.enabled
    THEN [ir |-> ir, st |-> st, errs |-> errorClear(errs, ERR_IRIDIUM),
          line |-> line, now_ms |-> now_ms]
    ELSE IF ~sessionDue(ir, st, cfg, now_ms)
    THEN [ir |-> ir, st |-> st, errs |-> errs, line |-> line, now_ms |-> now_ms]
    ELSE
      LET cb  == sessionCallbacks(sess.ticks, st, rd, errs, line, cfg, sd, now_ms)
          ir1 == [ir EXCEPT !.last_tx_ms = now_ms]
      IN IF sess.ok
         THEN [ir |-> [handleRxMessage(ir1, cb.st, cfg, sess.rx) EXCEPT !.fail_count = 0],
               st |-> cb.st, errs |-> errorClear(cb.errs, ERR_IRIDIUM),
               line |-> cb.line, now_ms |-> cb.now_ms]
         ELSE LET fc == IF ir1.fail_count < 255 THEN ir1.fail_count + 1
                        ELSE ir1.fail_count
              IN [ir |-> [ir1 EXCEPT !.fail_count = fc],
                  st |-> cb.st,
                  errs |-> IF fc >= IRIDIUM_FAILS_BEFORE_ERROR
                           THEN errorSet(cb.errs, ERR_IRIDIUM) ELSE cb.errs,
                  line |-> cb.line, now_ms |-> cb.now_ms]

(***************************************************************************)
(* settings: the SystemConfig struct                                       *)
(***************************************************************************)
\* settingsApplyDefaults: a disabled condition slot
\* value_finite stands for isfinite(value) && isfinite(true_duration_s): value is
\* a float in the firmware and an integer here.
DisabledCond ==
    [enabled |-> FALSE, var_id |-> VAR_T_POWER_S, op |-> OP_GT, value |-> 0,
     value_finite |-> TRUE, for_seconds |-> 0]

Cond(var_id, op, value, for_seconds) ==
    [enabled |-> TRUE, var_id |-> var_id, op |-> op, value |-> value,
     value_finite |-> TRUE, for_seconds |-> for_seconds]

\* A bucket whose first slots hold conds and whose other slots are disabled.
Bucket(conds) ==
    [i \in CondIdx |-> IF i < Len(conds) THEN conds[i + 1] ELSE DisabledCond]

ExtCfg(enabled, active_high, debounce_ms) ==
    [enabled |-> enabled, active_high |-> active_high, debounce_ms |-> debounce_ms]

IridiumCfg(enabled, cutdown_on_command, ground_interval_s) ==
    [enabled |-> enabled, cutdown_on_command |-> cutdown_on_command,
     cutdown_token |-> "CUTDOWN",
     ground_interval_s |-> ground_interval_s, ascent_interval_s |-> 300,
     descent_interval_s |-> 300, descent_duration_s |-> 3600,
     beacon_interval_s |-> 3600, mailbox_check_interval_s |-> 300]

\* The termination detector settings of the flights modelled (thresholds in
\* the units of the sample values below).
TermCfg ==
    [enabled |-> TRUE, sustain_s |-> 1, gps_drop_m |-> 30, pressure_rise_hpa |-> 5,
     use_gps |-> TRUE, use_pressure |-> TRUE]

SystemConfig(gates, bucketA, bucketB, ext0, ext1, icfg) ==
    [global_cutdown |-> [require_launch_before_cut |-> gates[1],
                         require_gps_fix_before_cut |-> gates[2]],
     bucketA |-> Bucket(bucketA), bucketB |-> Bucket(bucketB),
     external_inputs |-> [i \in ExtIdx |-> IF i = 0 THEN ext0 ELSE ext1],
     iridium |-> icfg,
     \* ap_password_len is strlen(ap_password); the default password has 9 characters
     device |-> [serial_number |-> 1234567, ap_password_len |-> 9],
     term |-> TermCfg]

(***************************************************************************)
(* settings: the blob in NVS, load, save, defaults                         *)
(***************************************************************************)
SERIAL_MAX      == 9999999
INTERVAL_MIN_S  == 10
INTERVAL_MAX_S  == 604800
AP_PASSWORD_MIN == 8

\* The record of the last setup(): its number in the run, whether settingsLoad
\* returned true, whether the button was held for the factory reset.
FirstBoot == [n |-> 1, load_ok |-> TRUE, hold |-> FALSE]

\* The record of the last request the config-mode web server handled, and the
\* number of requests since config mode was entered.
NoRequest == [op |-> "none", ok |-> FALSE, n |-> 0]

\* The SettingsStorageBlob settingsSave writes for cfg.  stored tells whether
\* the key exists with the size of the struct.
StorageBlob(cfg) ==
    [stored |-> TRUE, magic_ok |-> TRUE, version_ok |-> TRUE, reserved |-> 0,
     config |-> cfg]

\* validateBlob's validateCondition lambda
validateCondition(c) ==
    /\ c.var_id < VAR__COUNT
    /\ c.op <= OP_GT
    /\ c.value_finite

\* validateBlob's saneInterval lambda
saneInterval(secs) ==
    secs = 0 \/ (secs >= INTERVAL_MIN_S /\ secs <= INTERVAL_MAX_S)

validateBlob(blob) ==
    /\ blob.magic_ok
    /\ blob.version_ok
    /\ blob.reserved = 0
    /\ blob.config.device.serial_number <= SERIAL_MAX
    /\ \A i \in CondIdx : validateCondition(blob.config.bucketA[i])
    /\ \A i \in CondIdx : validateCondition(blob.config.bucketB[i])
    /\ saneInterval(blob.config.iridium.ground_interval_s)
    /\ saneInterval(blob.config.iridium.ascent_interval_s)
    /\ saneInterval(blob.config.iridium.descent_interval_s)
    /\ saneInterval(blob.config.iridium.beacon_interval_s)
    /\ saneInterval(blob.config.iridium.mailbox_check_interval_s)
    /\ \/ blob.config.iridium.descent_duration_s = 0
       \/ /\ blob.config.iridium.descent_duration_s >= INTERVAL_MIN_S
          /\ blob.config.iridium.descent_duration_s <= INTERVAL_MAX_S

\* settingsLoad with g_settings = cfg on entry: [ok, cfg (g_settings on return)]
settingsLoad(cfg, blob) ==
    IF ~blob.stored THEN [ok |-> FALSE, cfg |-> cfg]
    ELSE IF ~validateBlob(blob) THEN [ok |-> FALSE, cfg |-> cfg]
    ELSE [ok |-> blob.config.device.ap_password_len >= AP_PASSWORD_MIN,
          cfg |-> blob.config]

\* settingsSave of g_settings = cfg over the stored blob: [ok, blob]
settingsSave(cfg, blob, write_ok) ==
    IF cfg.device.ap_password_len < AP_PASSWORD_MIN THEN [ok |-> FALSE, blob |-> blob]
    ELSE IF write_ok THEN [ok |-> TRUE, blob |-> StorageBlob(cfg)]
    ELSE [ok |-> FALSE, blob |-> blob]

\* A plausible slip: the fallback keeps the serial number found in g_settings,
\* as settingsResetToDefaultsAndSave does.
settingsApplyDefaults_KeepsSerial(cfg) ==
    [global_cutdown |-> [require_launch_before_cut |-> TRUE,
                         require_gps_fix_before_cut |-> FALSE],
     bucketA |-> [i \in CondIdx |-> DisabledCond],
     bucketB |-> [i \in CondIdx |-> DisabledCond],
     external_inputs |-> [i \in ExtIdx |-> ExtCfg(i = 0, TRUE, 50)],
     iridium |-> IridiumCfg(FALSE, TRUE, 0),
     device |-> [serial_number |-> cfg.device.serial_number, ap_password_len |-> 9],
     term |-> [enabled |-> TRUE, sustain_s |-> 15, gps_drop_m |-> 60,
               pressure_rise_hpa |-> 50, use_gps |-> TRUE, use_pressure |-> TRUE]]

\* settingsApplyDefaults(cfg): the struct is zeroed, then every field is assigned.
settingsApplyDefaults(cfg) ==
    [global_cutdown |-> [require_launch_before_cut |-> TRUE,
                         require_gps_fix_before_cut |-> FALSE],
     bucketA |-> [i \in CondIdx |-> DisabledCond],
     bucketB |-> [i \in CondIdx |-> DisabledCond],
     external_inputs |-> [i \in ExtIdx |-> ExtCfg(i = 0, TRUE, 50)],
     iridium |-> IridiumCfg(FALSE, TRUE, 0),
     device |-> [serial_number |-> 0, ap_password_len |-> 9],
     term |-> [enabled |-> TRUE, sustain_s |-> 15, gps_drop_m |-> 60,
               pressure_rise_hpa |-> 50, use_gps |-> TRUE, use_pressure |-> TRUE]]

\* settingsInit with g_settings = cfg on entry: [cfg, blob]
settingsInit(cfg, blob, write_ok) ==
    LET l == settingsLoad(cfg, blob) IN
    IF l.ok THEN [cfg |-> l.cfg, blob |-> blob]
    ELSE LET d == settingsApplyDefaults(l.cfg) IN
         [cfg |-> d, blob |-> settingsSave(d, blob, write_ok).blob]

(***************************************************************************)
(* webconfig: the settings form, its validator and the /save handler       *)
(***************************************************************************)
\* A form argument is <<>> when the request does not carry it (hasArg false)
\* and <<text>> when it does.  A number's text is a sequence of characters,
\* 0..9 for the digits and NonDigit for any other character.
NonDigit == 10

\* strtoul(s, nullptr, 10) on a text without sign or blanks: the value of the
\* leading digits, 0 when there is none.
RECURSIVE strtoulFrom(_, _, _)
strtoulFrom(s, i, acc) ==
    IF i > Len(s) \/ s[i] > 9 THEN acc
    ELSE strtoulFrom(s, i + 1, acc * 10 + s[i])

toU32(s, def) ==
    IF Len(s) = 0 THEN def ELSE strtoulFrom(s, 1, 0)

toU16(s, def) ==
    IF Len(s) = 0 THEN def
    ELSE LET v == strtoulFrom(s, 1, 0) IN IF v > U16Max THEN U16Max ELSE v

\* The text of a float argument: digits, or one of the words strtof reads as a
\* non-finite value.  toF32 returns [value, finite].
FloatText(word, digits) == [word |-> word, digits |-> digits]

toF32(s, def) ==
    IF s.word = "" /\ Len(s.digits) = 0 THEN def
    ELSE IF s.word \in {"nan", "inf"} THEN [value |-> 0, finite |-> FALSE]
    ELSE [value |-> strtoulFrom(s.digits, 1, 0), finite |-> TRUE]

toBool(s, def) ==
    IF s = "" THEN def
    ELSE IF s \in {"1", "true", "on", "ON"} THEN TRUE
    ELSE IF s \in {"0", "false", "off", "OFF"} THEN FALSE
    ELSE def

\* parseVarId / parseOp: [ok, id]
parseVarId(token) ==
    IF token = "t_power_s" THEN [ok |-> TRUE, id |-> VAR_T_POWER_S]
    ELSE IF token = "t_launch_s" THEN [ok |-> TRUE, id |-> VAR_T_LAUNCH_S]
    ELSE IF token = "gps_alt_m" THEN [ok |-> TRUE, id |-> VAR_GPS_ALT_M]
    ELSE IF token = "gps_lat_deg" THEN [ok |-> TRUE, id |-> VAR_GPS_LAT_DEG]
    ELSE IF token = "gps_lon_deg" THEN [ok |-> TRUE, id |-> VAR_GPS_LON_DEG]
    ELSE IF token = "gps_fix" THEN [ok |-> TRUE, id |-> VAR_GPS_FIX]
    ELSE IF token = "pressure_hPa" THEN [ok |-> TRUE, id |-> VAR_PRESSURE_HPA]
    ELSE IF token = "temp_C" THEN [ok |-> TRUE, id |-> VAR_TEMP_C]
    ELSE IF token = "humidity_pct" THEN [ok |-> TRUE, id |-> VAR_HUMIDITY_PCT]
    ELSE [ok |-> FALSE, id |-> 0]

parseOp(token) ==
    IF token = "gt" THEN [ok |-> TRUE, id |-> OP_GT]
    ELSE IF token = "gte" THEN [ok |-> TRUE, id |-> OP_GTE]
    ELSE IF token = "eq" THEN [ok |-> TRUE, id |-> OP_EQ]
    ELSE IF token = "lte" THEN [ok |-> TRUE, id |-> OP_LTE]
    ELSE IF token = "lt" THEN [ok |-> TRUE, id |-> OP_LT]
    ELSE [ok |-> FALSE, id |-> 0]

\* The arguments of one condition row; NoRow is a row the request leaves out.
NoRow == [enabled |-> <<>>, var |-> <<>>, op |-> <<>>, value |-> <<>>, for_s |-> <<>>]

parseConditionRow(row, c) ==
    LET f == IF row.value = <<>> THEN [value |-> c.value, finite |-> c.value_finite]
             ELSE toF32(row.value[1], [value |-> c.value, finite |-> c.value_finite])
    IN [enabled |-> IF row.enabled = <<>> THEN FALSE ELSE toBool(row.enabled[1], FALSE),
        var_id |-> IF row.var # <<>> /\ parseVarId(row.var[1]).ok
                   THEN parseVarId(row.var[1]).id ELSE c.var_id,
        op |-> IF row.op # <<>> /\ parseOp(row.op[1]).ok
               THEN parseOp(row.op[1]).id ELSE c.op,
        value |-> f.value,
        value_finite |-> f.finite,
        for_seconds |-> IF row.for_s = <<>> THEN c.for_seconds
                        ELSE toU16(row.for_s[1], c.for_seconds)]

\* The request that carries no argument at all.
EmptyForm ==
    [serial_number |-> <<>>, ap_password |-> <<>>,
     gc_require_launch |-> <<>>, gc_require_fix |-> <<>>,
     ext_enabled |-> [i \in ExtIdx |-> <<>>],
     ext_active_high |-> [i \in ExtIdx |-> <<>>],
     ext_debounce_ms |-> [i \in ExtIdx |-> <<>>],
     ir_enabled |-> <<>>, ir_remote_cut |-> <<>>, ir_token |-> <<>>,
     ir_ascent_s |-> <<>>, ir_descent_s |-> <<>>, ir_descent_dur_s |-> <<>>,
     ir_beacon_s |-> <<>>,
     a |-> [i \in CondIdx |-> NoRow], b |-> [i \in CondIdx |-> NoRow]]

AP_PASSWORD_SIZE == 32

\* applyFormToCandidate.  The ap_password argument is the length of its text;
\* copyArgToBuf keeps at most sizeof(ap_password) - 1 characters of it.
applyFormToCandidate(c, form) ==
    [global_cutdown |->
       [require_launch_before_cut |->
          IF form.gc_require_launch = <<>> THEN c.global_cutdown.require_launch_before_cut
          ELSE toBool(form.gc_require_launch[1], c.global_cutdown.require_launch_before_cut),
        require_gps_fix_before_cut |->
          IF form.gc_require_fix = <<>> THEN c.global_cutdown.require_gps_fix_before_cut
          ELSE toBool(form.gc_require_fix[1], c.global_cutdown.require_gps_fix_before_cut)],
     bucketA |-> [i \in CondIdx |-> parseConditionRow(form.a[i], c.bucketA[i])],
     bucketB |-> [i \in CondIdx |-> parseConditionRow(form.b[i], c.bucketB[i])],
     external_inputs |->
       [i \in ExtIdx |->
          [enabled |-> IF form.ext_enabled[i] = <<>> THEN c.external_inputs[i].enabled
                       ELSE toBool(form.ext_enabled[i][1], c.external_inputs[i].enabled),
           active_high |-> IF form.ext_active_high[i] = <<>>
                           THEN c.external_inputs[i].active_high
                           ELSE toBool(form.ext_active_high[i][1],
                                       c.external_inputs[i].active_high),
           debounce_ms |-> IF form.ext_debounce_ms[i] = <<>>
                           THEN c.external_inputs[i].debounce_ms
                           ELSE toU16(form.ext_debounce_ms[i][1],
                                      c.external_inputs[i].debounce_ms)]],
     iridium |->
       [enabled |-> IF form.ir_enabled = <<>> THEN c.iridium.enabled
                    ELSE toBool(form.ir_enabled[1], c.iridium.enabled),
        cutdown_on_command |-> IF form.ir_remote_cut = <<>> THEN c.iridium.cutdown_on_command
                               ELSE toBool(form.ir_remote_cut[1], c.iridium.cutdown_on_command),
        cutdown_token |-> IF form.ir_token = <<>> THEN c.iridium.cutdown_token
                          ELSE form.ir_token[1],
        ground_interval_s |-> c.iridium.ground_interval_s,
        ascent_interval_s |-> IF form.ir_ascent_s = <<>> THEN c.iridium.ascent_interval_s
                              ELSE toU32(form.ir_ascent_s[1], c.iridium.ascent_interval_s),
        descent_interval_s |-> IF form.ir_descent_s = <<>> THEN c.iridium.descent_interval_s
                               ELSE toU32(form.ir_descent_s[1], c.iridium.descent_interval_s),
        descent_duration_s |-> IF form.ir_descent_dur_s = <<>>
                               THEN c.iridium.descent_duration_s
                               ELSE toU32(form.ir_descent_dur_s[1],
                                          c.iridium.descent_duration_s),
        beacon_interval_s |-> IF form.ir_beacon_s = <<>> THEN c.iridium.beacon_interval_s
                              ELSE toU32(form.ir_beacon_s[1], c.iridium.beacon_interval_s),
        mailbox_check_interval_s |-> c.iridium.mailbox_check_interval_s],
     device |->
       [serial_number |-> IF form.serial_number = <<>> THEN c.device.serial_number
                          ELSE toU32(form.serial_number[1], c.device.serial_number),
        ap_password_len |-> IF form.ap_password = <<>> THEN c.device.ap_password_len
                            ELSE IF form.ap_password[1] < AP_PASSWORD_SIZE - 1
                            THEN form.ap_password[1] ELSE AP_PASSWORD_SIZE - 1],
     term |-> c.term]

EXT_DEBOUNCE_MAX_MS == 5000

\* webconfigValidateCandidate's validateCond lambda: TRUE when it adds no error
validateCond(c) ==
    \/ ~c.enabled
    \/ /\ c.var_id < VAR__COUNT
       /\ c.op <= OP_GT
       /\ c.value_finite
       /\ c.var_id = VAR_GPS_LAT_DEG => (c.value >= -90 /\ c.value <= 90)
       /\ c.var_id = VAR_GPS_LON_DEG => (c.value >= -180 /\ c.value <= 180)
       /\ c.var_id = VAR_HUMIDITY_PCT => (c.value >= 0 /\ c.value <= 100)

\* webconfigValidateCandidate: out_result.ok
webconfigValidateCandidate(candidate) ==
    /\ candidate.device.serial_number <= SERIAL_MAX
    /\ candidate.device.ap_password_len >= AP_PASSWORD_MIN
    /\ \A i \in ExtIdx : candidate.external_inputs[i].debounce_ms <= EXT_DEBOUNCE_MAX_MS
    /\ candidate.iridium.enabled =>
         /\ candidate.iridium.ascent_interval_s >= INTERVAL_MIN_S
         /\ candidate.iridium.descent_interval_s >= INTERVAL_MIN_S
         /\ candidate.iridium.beacon_interval_s >= INTERVAL_MIN_S
         /\ \/ candidate.iridium.descent_duration_s = 0
            \/ candidate.iridium.descent_duration_s >= INTERVAL_MIN_S
         /\ ~(candidate.iridium.cutdown_on_command /\ candidate.iridium.cutdown_token = "")
    /\ \A i \in CondIdx : validateCond(candidate.bucketA[i]) /\ validateCond(candidate.bucketB[i])

\* handleSave with g_settings = cfg: [cfg, blob, g_saved_ok]
handleSave(cfg, blob, form, write_ok) ==
    LET candidate == applyFormToCandidate(cfg, form) IN
    IF ~webconfigValidateCandidate(candidate)
    THEN [cfg |-> cfg, blob |-> blob, g_saved_ok |-> FALSE]
    ELSE LET sv == settingsSave(candidate, blob, write_ok)
         IN [cfg |-> candidate, blob |-> sv.blob, g_saved_ok |-> sv.ok]

\* settingsResetToDefaultsAndSave with g_settings = cfg: [cfg, blob]
settingsResetToDefaultsAndSave(cfg, blob, write_ok) ==
    LET d == [settingsApplyDefaults(cfg) EXCEPT !.device.serial_number = cfg.device.serial_number]
    IN [cfg |-> d, blob |-> settingsSave(d, blob, write_ok).blob]

(***************************************************************************)
(* The configurations a flight is run with                                 *)
(***************************************************************************)
\* The default rules with the thresholds of TermCfg and a serial number set
DefaultConfig ==
    SystemConfig(<<TRUE, FALSE>>, <<>>, <<>>,
                 ExtCfg(TRUE, TRUE, 50), ExtCfg(FALSE, TRUE, 50),
                 IridiumCfg(FALSE, TRUE, 0))

Configs ==
    { DefaultConfig,
      \* remote cut allowed, uplink on the ground, a time rule behind the launch gate
      SystemConfig(<<TRUE, FALSE>>, <<>>, <<Cond(VAR_T_POWER_S, OP_GTE, 2, 0)>>,
                   ExtCfg(TRUE, TRUE, 50), ExtCfg(FALSE, TRUE, 50),
                   IridiumCfg(TRUE, TRUE, 10)),
      \* an altitude rule with dwell behind the GPS-fix gate, a slow second input
      SystemConfig(<<FALSE, TRUE>>, <<Cond(VAR_PRESSURE_HPA, OP_LT, 1000, 0)>>,
                   <<Cond(VAR_GPS_ALT_M, OP_GTE, 30, 2)>>,
                   ExtCfg(FALSE, TRUE, 50), ExtCfg(TRUE, FALSE, 2000),
                   IridiumCfg(TRUE, FALSE, 10)) }

(***************************************************************************)
(* The environment of one loop() pass                                      *)
(***************************************************************************)
\* Time between the end of one loop() pass and the start of the next (ms).
LoopSteps == {1000}

SdCards == {"ok", "io_fail"}

\* BME680: performReading() fails, or gives a pressure (hPa).
BmeSamples ==
    { [bme_ok |-> FALSE, pressure_hpa |-> 0],
      [bme_ok |-> TRUE, pressure_hpa |-> 1000],
      [bme_ok |-> TRUE, pressure_hpa |-> 995] }

\* TinyGPS++: nothing fresh, or a fresh location and altitude (m).
GpsSamples ==
    { [loc_ok |-> FALSE, alt_ok |-> FALSE, alt_m |-> 0],
      [loc_ok |-> TRUE, alt_ok |-> TRUE, alt_m |-> 30] }

\* The pin levels that matter: a disabled input is never read.
PinLevels(cfg) ==
    {p \in [ExtIdx -> BOOLEAN] :
        \A i \in ExtIdx : ~cfg.external_inputs[i].enabled => ~p[i]}

SensorEnvs(cfg) ==
    { [pin_high |-> p, bme_ok |-> b.bme_ok, pressure_hpa |-> b.pressure_hpa,
       temp_c |-> 20, humidity_pct |-> 40,
       loc_ok |-> g.loc_ok, lat_deg |-> 40, lon_deg |-> -105,
       alt_ok |-> g.alt_ok, alt_m |-> g.alt_m] :
      p \in PinLevels(cfg), b \in BmeSamples, g \in GpsSamples }

RxMsgs ==
    { NoMsg,
      Msg(TRUE, 1234567, "CUTDOWN"),
      Msg(TRUE, 1234567, "WRONG") }

NoSession == [ticks |-> 0, ok |-> FALSE, rx |-> NoMsg]

\* A session that fails delivers no message.
Sessions ==
    { [ticks |-> k, ok |-> FALSE, rx |-> NoMsg] : k \in 0..MaxSessionTicks }
    \cup { [ticks |-> k, ok |-> TRUE, rx |-> rx] : k \in 0..MaxSessionTicks, rx \in RxMsgs }

(***************************************************************************)
(* Spec: setup() followed by passes of loop()                              *)
(***************************************************************************)
\* The comparison of an enabled condition slot on this tick's inputs: variable
\* valid and compare() true (evalCondition1Hz before its dwell handling).
condTrue(c, in) ==
    /\ c.enabled
    /\ c.var_id < VAR__COUNT
    /\ in.vars_valid[c.var_id]
    /\ compare(in.vars[c.var_id], c.op, c.value)

\* The GPS and pressure halves of launch_candidate in readingsUpdate1Hz.
launchGpsRise(la, rd) ==
    /\ la.base_gps_valid /\ rd.gps_alt_valid
    /\ rd.gps_alt_m - la.base_gps_alt_m >= LAUNCH_GPS_ALT_RISE_M

launchPressureDrop(la, rd) ==
    /\ la.base_baro_valid /\ rd.pressure_valid
    /\ la.base_pressure_hpa - rd.pressure_hpa >= LAUNCH_PRESSURE_DROP_HPA

\* descent_now of stateUpdateTerminationDetector1Hz: the peak and the minimum
\* include this tick's sample.
descentNow(st, rd, tcfg) ==
    LET gps_path == tcfg.use_gps /\ rd.gps_fix_valid /\ rd.gps_alt_valid
        peak == IF gps_path /\ rd.gps_alt_m > st.peak_alt_m
                THEN rd.gps_alt_m ELSE st.peak_alt_m
        p_path == tcfg.use_pressure /\ rd.pressure_valid
        minp == IF p_path /\ rd.pressure_hpa < st.min_pressure_hpa
                THEN rd.pressure_hpa ELSE st.min_pressure_hpa
    IN \/ gps_path /\ (peak - rd.gps_alt_m >= tcfg.gps_drop_m)
       \/ p_path /\ (rd.pressure_hpa - minp >= tcfg.pressure_rise_hpa)

\* No tick observed yet.
NoHist ==
    [condA |-> ZeroAccum, condB |-> ZeroAccum,
     crit |-> FALSE, armed |-> FALSE, cand |-> 0, gps_only |-> 0,
     detector_ran |-> FALSE, descent |-> 0,
     ext |-> [i \in ExtIdx |-> 0]]

\* The record of one more tick of loop().  st0 is g_state when readingsUpdate1Hz
\* is entered, r its result, in the cut logic inputs of the tick.
\*   condA, condB   per slot, the consecutive ticks up to this one on which the
\*                  slot's comparison was true
\*   crit           a Critical error was active when launch detection ran
\*   armed          launch was not yet detected when launch detection ran
\*   cand           consecutive armed ticks with a launch candidate and no
\*                  Critical error
\*   gps_only       consecutive armed ticks with the GPS rise, an invalid pressure
\*                  and no error other than the environmental sensor's
\*   detector_ran   the termination detector was in flight, unlatched and enabled
\*   descent        consecutive such ticks on which descent_now held
\*   ext            per external input, see extStreak
histUpdate(h, cfg, st0, r, in) ==
    LET crit == errorsAnyCriticalActive(r.errs)
        armed == ~st0.launch_detected
        ran == /\ r.st.flight_state = FLIGHT_IN_FLIGHT
               /\ ~r.st.terminated
               /\ cfg.term.enabled
    IN [condA |-> [i \in CondIdx |->
                     IF condTrue(cfg.bucketA[i], in) THEN h.condA[i] + 1 ELSE 0],
        condB |-> [i \in CondIdx |->
                     IF condTrue(cfg.bucketB[i], in) THEN h.condB[i] + 1 ELSE 0],
        crit |-> crit,
        armed |-> armed,
        cand |-> IF ~armed THEN h.cand
                 ELSE IF ~crit /\ (launchGpsRise(r.la, r.rd) \/ launchPressureDrop(r.la, r.rd))
                 THEN h.cand + 1 ELSE 0,
        gps_only |-> IF ~armed THEN h.gps_only
                     ELSE IF /\ launchGpsRise(r.la, r.rd)
                             /\ ~r.rd.pressure_valid
                             /\ r.errs \subseteq {ERR_ENV_SENSOR, ERR_SD_MISSING}
                     THEN h.gps_only + 1 ELSE 0,
        detector_ran |-> ran,
        descent |-> IF ran /\ descentNow(r.st, r.rd, cfg.term) THEN h.descent + 1 ELSE 0,
        ext |-> h.ext]

\* Per external input, the consecutive ticks up to this one on which the pin was
\* sampled at its active level (0 for a disabled input).
extStreak(ext, cfg, pin_high) ==
    [i \in ExtIdx |->
        IF cfg.external_inputs[i].enabled
           /\ pin_high[i] = cfg.external_inputs[i].active_high
        THEN ext[i] + 1 ELSE 0]

\* What iridiumUpdate1Hz was called with on a tick and whether it opened a
\* session: the latches and t_terminated_s on entry, whether s_last_tx_ms was 0,
\* the milliseconds since s_last_tx_ms, whether s_last_tx_ms was set to now_ms.
NoTx ==
    [launch_detected |-> FALSE, terminated |-> FALSE, t_terminated_s |-> 0,
     first |-> FALSE, since_ms |-> 0, started |-> FALSE]

txRecord(ir, st, u, now_ms) ==
    [launch_detected |-> st.launch_detected, terminated |-> st.terminated,
     t_terminated_s |-> st.t_terminated_s,
     first |-> ir.last_tx_ms = 0,
     since_ms |-> U32Sub(now_ms, ir.last_tx_ms),
     started |-> u.ir.last_tx_ms = now_ms /\ ir.last_tx_ms # now_ms]

NoTick ==
    [ticked |-> FALSE, cut_fired_before |-> FALSE, terminated_before |-> FALSE,
     remote_request |-> FALSE, d |-> NoCut, release_called |-> FALSE,
     tx |-> NoTx, session |-> NoSession]

\* The statics after setup(): settings loaded, state and readings initialized,
\* sensor, SD card and modem bring-up done, servo init and boot wiggle done.
\* starts holds the values millis() may have when stateInit runs.
SetupAt(cfgs, starts) ==
    /\ millis \in starts
    /\ g_settings \in cfgs
    /\ g_state = stateInit(millis)
    /\ g_readings = readingsInit
    /\ s_launch = resetLaunchDetectionRuntime
    /\ \E gps_ok \in BOOLEAN : g_errors = (IF gps_ok THEN {} ELSE {ERR_GPS})
    /\ g_bucketA_true_s = ZeroAccum
    /\ g_bucketB_true_s = ZeroAccum
    /\ iridium = iridiumInit(g_settings.iridium, TRUE)
    /\ sd_line = NoLine
    /\ last_tick = NoTick
    /\ hist = NoHist
    /\ sched_log = <<>>
    /\ nvs = StorageBlob(g_settings)
    /\ boots = FirstBoot
    /\ web = NoRequest
    /\ \E attach_ok \in BOOLEAN :
         LET i == servoReleaseInit(ServoStatics, attach_ok)
             w == servoReleaseWiggle(i.s, attach_ok)
         IN /\ servo = w.s
            /\ last_call = [op |-> "Wiggle", ret |-> w.ret, writes |-> w.writes]
            /\ angle_log = i.writes \o w.writes
    /\ n_calls = 2
    /\ phase = "run"

\* setup() run with millis() = 0.
Setup(cfgs) == SetupAt(cfgs, {0})

\* One pass of loop() in which stateTick1Hz(now_ms) reports no tick.
\* more tells whether the run goes on; steps holds the times a pass may start
\* after the end of the one before.
loopNoTickAt(more, steps) ==
    /\ more
    /\ \E step \in steps :
         LET now_ms == U32Add(millis, step)
             t == stateTick1Hz(g_state, now_ms)
         IN /\ ~t.ret
            /\ millis' = now_ms
            /\ g_state' = t.st
    /\ last_tick' = NoTick
    /\ UNCHANGED <<g_settings, g_readings, s_launch, g_errors, g_bucketA_true_s,
                   g_bucketB_true_s, iridium, sd_line, hist, servoVars>>

\* One pass of loop() in which a tick is due: the whole 1 Hz pipeline.  Each
\* stage's result is bound once (a one-element set) and handed to the next.
loopTickAt(more, steps, envs, cards, sessions) ==
    /\ more
    /\ \E step \in steps, env \in envs, sd \in cards :
       \E now_ms \in {U32Add(millis, step)} :
       \E t \in {stateTick1Hz(g_state, now_ms)} :
         /\ t.ret
         /\ \E st1 \in {stateOn1HzTick(t.st)} :
            \E r \in {readingsUpdate1Hz(g_readings, st1, s_launch, g_errors, g_settings,
                                        env, now_ms)} :
            \E st2 \in {stateUpdateTerminationDetector1Hz(r.st, r.rd, g_settings.term,
                                                          now_ms)} :
            \E sess \in (IF sessionDue(iridium, st2, g_settings, now_ms)
                         THEN sessions ELSE {NoSession}) :
            \E u \in {iridiumUpdate1Hz(iridium, st2, r.rd, r.errs, sd_line, g_settings,
                                       sd, sess, now_ms)} :
            \E q \in {iridiumGetRemoteCutRequestAndClear(u.ir)} :
            \E in \in {[readingsFillCutLogicInputs(u.st, r.rd)
                          EXCEPT !.iridium_remote_cut_request = q.ret]} :
            \E c \in {cutLogicEvaluate1Hz(u.st.cut_fired, g_settings, in,
                                          g_bucketA_true_s, g_bucketB_true_s)} :
            \E l \in {sdLogUpdate1Hz(u.errs, u.st, r.rd, sd)} :
            \E h \in {[histUpdate(hist, g_settings, st1, r, in)
                         EXCEPT !.ext = extStreak(hist.ext, g_settings, env.pin_high)]} :
              /\ millis' = u.now_ms
              /\ hist' = h
              /\ g_readings' = r.rd
              /\ s_launch' = r.la
              /\ g_errors' = l.errs
              /\ sd_line' = l.line
              /\ iridium' = q.ir
              /\ g_bucketA_true_s' = c.accA
              /\ g_bucketB_true_s' = c.accB
              /\ last_tick' = [ticked |-> TRUE,
                               cut_fired_before |-> u.st.cut_fired,
                               terminated_before |-> u.st.terminated,
                               remote_request |-> q.ret,
                               d |-> c.d,
                               release_called |-> c.d.should_cut,
                               tx |-> txRecord(iridium, st2, u, now_ms),
                               session |-> sess]
              /\ IF c.d.should_cut
                 THEN /\ g_state' = stateSetCutFired(u.st, c.d.reason, now_ms)
                      /\ \E attach_ok \in BOOLEAN :
                         \E rel \in {servoReleaseRelease(servo, attach_ok)} :
                           /\ servo' = rel.s
                           /\ last_call' = Call("Release", rel)
                           /\ angle_log' = angle_log \o rel.writes
                      /\ n_calls' = n_calls + 1
                 ELSE /\ g_state' = u.st
                      /\ UNCHANGED <<servo, last_call, angle_log, n_calls>>
    /\ UNCHANGED <<g_settings, phase>>

\* The passes of loop() of a flight of at most max_ticks seconds, one pass per
\* second, the call log not kept.
loopNoTick(max_ticks) ==
    /\ loopNoTickAt(g_state.t_power_s < max_ticks, LoopSteps)
    /\ UNCHANGED <<sched_log, nvs, boots, web>>

loopTick(max_ticks, envs, cards, sessions) ==
    /\ loopTickAt(g_state.t_power_s < max_ticks, LoopSteps, envs, cards, sessions)
    /\ UNCHANGED <<sched_log, nvs, boots, web>>

\* Spec: short flights on the ground with every cut source, a working barometer
\* and every pin, GPS, SD card and uplink outcome.
GroundEnvs(cfg) ==
    {e \in SensorEnvs(cfg) : e.bme_ok}

Init == Setup(Configs)

LoopIdle == loopNoTick(MaxTicks)

LoopTick == loopTick(MaxTicks, GroundEnvs(g_settings), SdCards, Sessions)

Next == LoopIdle \/ LoopTick

Spec == Init /\ [][Next]_vars

\* SpecFlight: flights long enough for launch and termination, without GPS
\* reception and with a working SD card; the barometer fails or sees ground or
\* ascent pressure.
FlightConfigs ==
    { DefaultConfig,
      \* a time-since-launch rule behind the launch gate
      SystemConfig(<<TRUE, FALSE>>, <<>>, <<Cond(VAR_T_LAUNCH_S, OP_GTE, 2, 0)>>,
                   ExtCfg(TRUE, TRUE, 50), ExtCfg(FALSE, TRUE, 50),
                   IridiumCfg(FALSE, TRUE, 0)) }

FlightEnvs(cfg) ==
    {e \in SensorEnvs(cfg) : ~e.loc_ok}

InitFlight == Setup(FlightConfigs)

FlightLoopIdle == loopNoTick(MaxFlightTicks)

FlightLoopTick == loopTick(MaxFlightTicks, FlightEnvs(g_settings), {"ok"}, {NoSession})

NextFlight == FlightLoopIdle \/ FlightLoopTick

SpecFlight == InitFlight /\ [][NextFlight]_vars

\* SpecRules: the rule engine alone.  Gates off, external inputs and uplink
\* disabled, so every tick evaluates the buckets until the cut fires; the
\* barometer fails or reads on either side of the pressure threshold and the GPS
\* has an altitude or none.
NoExt == ExtCfg(FALSE, TRUE, 50)

RuleConfigs ==
    { \* two conditions ANDed in Bucket A, the second with dwell
      SystemConfig(<<FALSE, FALSE>>,
                   <<Cond(VAR_PRESSURE_HPA, OP_LT, 1000, 0), Cond(VAR_GPS_ALT_M, OP_GTE, 30, 2)>>,
                   <<Cond(VAR_T_POWER_S, OP_GTE, 1, 0)>>,
                   NoExt, NoExt, IridiumCfg(FALSE, TRUE, 0)),
      \* Bucket A empty, one Bucket B condition with a dwell of 2 s
      SystemConfig(<<FALSE, FALSE>>, <<>>, <<Cond(VAR_GPS_ALT_M, OP_GTE, 30, 2)>>,
                   NoExt, NoExt, IridiumCfg(FALSE, TRUE, 0)),
      \* Bucket A empty, one Bucket B condition without dwell
      SystemConfig(<<FALSE, FALSE>>, <<>>, <<Cond(VAR_PRESSURE_HPA, OP_LT, 1000, 0)>>,
                   NoExt, NoExt, IridiumCfg(FALSE, TRUE, 0)),
      \* a Bucket B time condition with dwell behind a Bucket A pressure condition
      SystemConfig(<<FALSE, FALSE>>, <<Cond(VAR_PRESSURE_HPA, OP_LT, 1000, 0)>>,
                   <<Cond(VAR_T_POWER_S, OP_GTE, 1, 1)>>,
                   NoExt, NoExt, IridiumCfg(FALSE, TRUE, 0)),
      \* two Bucket A conditions with a dwell of 2 s each
      SystemConfig(<<FALSE, FALSE>>,
                   <<Cond(VAR_GPS_ALT_M, OP_GTE, 30, 2), Cond(VAR_PRESSURE_HPA, OP_LT, 1000, 2)>>,
                   <<Cond(VAR_T_POWER_S, OP_GTE, 1, 0)>>,
                   NoExt, NoExt, IridiumCfg(FALSE, TRUE, 0)) }

InitRules == Setup(RuleConfigs)

RulesLoopIdle == loopNoTick(MaxRuleTicks)

RulesLoopTick == loopTick(MaxRuleTicks, SensorEnvs(g_settings), {"ok"}, {NoSession})

NextRules == RulesLoopIdle \/ RulesLoopTick

SpecRules == InitRules /\ [][NextRules]_vars

\* SpecLaunch: the launch detector with both sensors.  No cut source is
\* configured; the barometer fails or reads ground or ascent pressure, the GPS
\* has no altitude or reads ground or ascent altitude.
LaunchConfigs ==
    { SystemConfig(<<TRUE, FALSE>>, <<>>, <<>>, NoExt, NoExt, IridiumCfg(FALSE, TRUE, 0)),
      \* an immediate time rule behind the launch gate
      SystemConfig(<<TRUE, FALSE>>, <<>>, <<Cond(VAR_T_POWER_S, OP_GTE, 1, 0)>>,
                   NoExt, NoExt, IridiumCfg(FALSE, TRUE, 0)) }

LaunchGpsSamples ==
    GpsSamples \cup { [loc_ok |-> TRUE, alt_ok |-> TRUE, alt_m |-> 0] }

LaunchEnvs(cfg) ==
    { [pin_high |-> p, bme_ok |-> b.bme_ok, pressure_hpa |-> b.pressure_hpa,
       temp_c |-> 20, humidity_pct |-> 40,
       loc_ok |-> g.loc_ok, lat_deg |-> 40, lon_deg |-> -105,
       alt_ok |-> g.alt_ok, alt_m |-> g.alt_m] :
      p \in PinLevels(cfg), b \in BmeSamples, g \in LaunchGpsSamples }

InitLaunch == Setup(LaunchConfigs)

LaunchLoopIdle == loopNoTick(MaxLaunchTicks)

LaunchLoopTick == loopTick(MaxLaunchTicks, LaunchEnvs(g_settings), {"ok"}, {NoSession})

NextLaunch == LaunchLoopIdle \/ LaunchLoopTick

SpecLaunch == InitLaunch /\ [][NextLaunch]_vars

\* SpecDescent: flights through launch into descent with the termination
\* detector asked for two sustained seconds; the factory cut sources, no GPS
\* reception, the barometer as in SpecFlight.
DescentConfigs ==
    { [DefaultConfig EXCEPT !.term.sustain_s = 2] }

InitDescent == Setup(DescentConfigs)

DescentLoopIdle == loopNoTick(MaxDescentTicks)

DescentLoopTick == loopTick(MaxDescentTicks, FlightEnvs(g_settings), {"ok"}, {NoSession})

NextDescent == DescentLoopIdle \/ DescentLoopTick

SpecDescent == InitDescent /\ [][NextDescent]_vars

\* SpecUplink: flights through launch, termination and the descent window with
\* the uplink enabled and remote cut allowed; the intervals of the phases differ
\* and one or more of them is 0.  The barometer sees ground or ascent pressure;
\* a session fails, or succeeds with or without a cut command, and lasts less or
\* more than a second.
UplinkIridium(ground_s, ascent_s, descent_s, duration_s, beacon_s) ==
    [IridiumCfg(TRUE, TRUE, ground_s) EXCEPT !.ascent_interval_s = ascent_s,
                                             !.descent_interval_s = descent_s,
                                             !.descent_duration_s = duration_s,
                                             !.beacon_interval_s = beacon_s]

UplinkConfigs ==
    { [SystemConfig(<<TRUE, FALSE>>, <<>>, <<>>, NoExt, NoExt, ic)
          EXCEPT !.term.sustain_s = 2] :
      ic \in { UplinkIridium(0, 11, 10, 11, 0), UplinkIridium(12, 0, 11, 0, 10) } }

UplinkEnvs(cfg) ==
    {e \in FlightEnvs(cfg) : e.bme_ok}

UplinkSessions ==
    { [ticks |-> 0, ok |-> FALSE, rx |-> NoMsg],
      [ticks |-> 1, ok |-> TRUE, rx |-> NoMsg],
      [ticks |-> 0, ok |-> TRUE, rx |-> Msg(TRUE, 1234567, "CUTDOWN")],
      [ticks |-> 1, ok |-> TRUE, rx |-> Msg(TRUE, 1234567, "CUTDOWN")] }

InitUplink == Setup(UplinkConfigs)

UplinkLoopIdle == loopNoTick(MaxUplinkTicks)

UplinkLoopTick ==
    loopTick(MaxUplinkTicks, UplinkEnvs(g_settings), {"ok"}, UplinkSessions)

NextUplink == UplinkLoopIdle \/ UplinkLoopTick

SpecUplink == InitUplink /\ [][NextUplink]_vars

\* SpecSched: loop() called at irregular times: early, on time, after a stall
\* of more than 10 s, after a stall of more than 0xFFFF s; power-on with the
\* millisecond counter at 0, 1 s and 3 s before it wraps to 0, and 1.5 s before
\* it passes 2^31.  No cut source, a quiet environment: the pipeline only keeps time.
SchedConfigs ==
    { SystemConfig(<<TRUE, FALSE>>, <<>>, <<>>, NoExt, NoExt, IridiumCfg(FALSE, TRUE, 0)) }

SchedStarts == {0, -1000, -3000, 2147483647 - 1500}

SchedSteps == {400, 1000, 11500, 70000000}

SchedEnvs(cfg) ==
    {e \in GroundEnvs(cfg) : e.pressure_hpa = 1000 /\ ~e.loc_ok}

\* One call of stateTick1Hz as loop() made it: the time, the scheduler before
\* the call, what it returned and the seconds it reported, the deadline after.
SchedCall ==
    [now_ms   |-> millis',
     armed    |-> g_state.sched_1hz.initialized,
     deadline |-> g_state.sched_1hz.next_tick_ms,
     ret      |-> last_tick'.ticked,
     dt_s     |-> IF last_tick'.ticked THEN g_state'.sched_1hz.last_elapsed_s ELSE 0,
     next     |-> g_state'.sched_1hz.next_tick_ms]

InitSched == SetupAt(SchedConfigs, SchedStarts)

SchedLoopIdle ==
    /\ loopNoTickAt(Len(sched_log) < MaxSchedCalls, SchedSteps)
    /\ sched_log' = Append(sched_log, SchedCall)
    /\ UNCHANGED <<nvs, boots, web>>

SchedLoopTick ==
    /\ loopTickAt(Len(sched_log) < MaxSchedCalls, SchedSteps, SchedEnvs(g_settings),
                  {"ok"}, {NoSession})
    /\ sched_log' = Append(sched_log, SchedCall)
    /\ UNCHANGED <<nvs, boots, web>>

NextSched == SchedLoopIdle \/ SchedLoopTick

SpecSched == InitSched /\ [][NextSched]_vars

\* SpecExt: the external inputs held active for more than a minute.  One input
\* enabled at a time: input 0 active-high with a debounce at the accumulator's
\* cap, or input 1 active-low with a debounce beyond the cap; a quiet barometer,
\* no GPS reception, no uplink.
ExtConfigs ==
    { SystemConfig(<<TRUE, FALSE>>, <<>>, <<>>, ExtCfg(TRUE, TRUE, 60000), NoExt,
                   IridiumCfg(FALSE, TRUE, 0)),
      SystemConfig(<<TRUE, FALSE>>, <<>>, <<>>, NoExt, ExtCfg(TRUE, FALSE, 65535),
                   IridiumCfg(FALSE, TRUE, 0)) }

InitExt == Setup(ExtConfigs)

ExtLoopIdle == loopNoTick(MaxExtTicks)

ExtLoopTick == loopTick(MaxExtTicks, SchedEnvs(g_settings), {"ok"}, {NoSession})

NextExt == ExtLoopIdle \/ ExtLoopTick

SpecExt == InitExt /\ [][NextExt]_vars

(***************************************************************************)
(* SpecServo: the release mechanism driven through its public API in any   *)
(* order (the boot init first, as setup() does).                           *)
(***************************************************************************)
\* The flight globals as setup() leaves them before the servo init; the servo
\* commands do not touch them.
FlightIdle ==
    /\ millis = 0
    /\ g_settings = DefaultConfig
    /\ g_state = stateInit(0)
    /\ g_readings = readingsInit
    /\ s_launch = resetLaunchDetectionRuntime
    /\ g_errors = {}
    /\ g_bucketA_true_s = ZeroAccum
    /\ g_bucketB_true_s = ZeroAccum
    /\ iridium = iridiumInit(DefaultConfig.iridium, TRUE)
    /\ sd_line = NoLine
    /\ last_tick = NoTick
    /\ hist = NoHist
    /\ sched_log = <<>>
    /\ nvs = StorageBlob(g_settings)
    /\ boots = FirstBoot
    /\ web = NoRequest

InitServo ==
    /\ FlightIdle
    /\ servo = ServoStatics
    /\ last_call = NoCall
    /\ n_calls = 0
    /\ angle_log = <<>>
    /\ phase = "boot"

ServoBoot ==
    /\ phase = "boot"
    /\ \E attach_ok \in BOOLEAN :
         LET r == servoReleaseInit(servo, attach_ok) IN
         /\ servo' = r.s
         /\ last_call' = Call("Init", r)
         /\ angle_log' = angle_log \o r.writes
    /\ n_calls' = n_calls + 1
    /\ phase' = "run"
    /\ UNCHANGED flightVars

ServoLock ==
    /\ phase = "run" /\ n_calls < MaxServoCalls
    /\ \E attach_ok \in BOOLEAN :
         LET r == servoReleaseLock(servo, attach_ok) IN
         /\ servo' = r.s
         /\ last_call' = Call("Lock", r)
         /\ angle_log' = angle_log \o r.writes
    /\ n_calls' = n_calls + 1
    /\ UNCHANGED <<phase, flightVars>>

ServoRelease ==
    /\ phase = "run" /\ n_calls < MaxServoCalls
    /\ \E attach_ok \in BOOLEAN :
         LET r == servoReleaseRelease(servo, attach_ok) IN
         /\ servo' = r.s
         /\ last_call' = Call("Release", r)
         /\ angle_log' = angle_log \o r.writes
    /\ n_calls' = n_calls + 1
    /\ UNCHANGED <<phase, flightVars>>

ServoWiggle ==
    /\ phase = "run" /\ n_calls < MaxServoCalls
    /\ \E attach_ok \in BOOLEAN :
         LET r == servoReleaseWiggle(servo, attach_ok) IN
         /\ servo' = r.s
         /\ last_call' = Call("Wiggle", r)
         /\ angle_log' = angle_log \o r.writes
    /\ n_calls' = n_calls + 1
    /\ UNCHANGED <<phase, flightVars>>

NextServo == ServoBoot \/ ServoLock \/ ServoRelease \/ ServoWiggle

SpecServo == InitServo /\ [][NextServo]_vars

Range(seq) == {seq[i] : i \in 1..Len(seq)}

\* A step that is a servo command named op.
IsCall(op) == n_calls' = n_calls + 1 /\ last_call'.op = op

(***************************************************************************)
(* C4: once servoReleaseRelease has latched, every later command leaves    *)
(* the latch set and the state RELEASED and never commands the lock        *)
(* position, and every later servoReleaseLock returns false.               *)
(***************************************************************************)
C4_LockAfterReleaseRejected ==
    [][ servoReleaseIsReleased(servo) =>
          /\ servoReleaseIsReleased(servo')
          /\ servoReleaseGetState(servo') = SERVO_STATE_RELEASED
          /\ SERVO_POS_LOCK_DEG \notin Range(last_call'.writes)
          /\ servo'.angle = SERVO_POS_RELEASE_DEG
          /\ (IsCall("Lock") => last_call'.ret = FALSE) ]_vars

\* A Lock was issued after the release had latched (and after a wiggle too).
C4_Witness ==
    /\ servoReleaseIsReleased(servo)
    /\ last_call.op = "Lock"
    /\ n_calls >= 4

(***************************************************************************)
(* C5: servoReleaseRelease on an attached mechanism returns true and       *)
(* leaves the latch set; the first call commands the release position      *)
(* once, every further call changes nothing and commands nothing.          *)
(***************************************************************************)
C5_ReleaseIdempotent ==
    [][ (IsCall("Release") /\ servo.g_attached) =>
          /\ last_call'.ret = TRUE
          /\ servoReleaseIsReleased(servo')
          /\ servoReleaseGetState(servo') = SERVO_STATE_RELEASED
          /\ IF servoReleaseIsReleased(servo)
             THEN servo' = servo /\ last_call'.writes = <<>>
             ELSE last_call'.writes = <<SERVO_POS_RELEASE_DEG>> ]_vars

\* Release was called again on a mechanism that had already released.
C5_Witness ==
    /\ last_call.op = "Release"
    /\ last_call.ret = TRUE
    /\ last_call.writes = <<>>
    /\ servoReleaseIsReleased(servo)

(***************************************************************************)
(* C6 as stated: a wiggle on an unreleased mechanism leaves the latch      *)
(* clear and the state LOCKED.                                             *)
(***************************************************************************)
C6_Original ==
    [][ (IsCall("Wiggle") /\ ~servoReleaseIsReleased(servo)) =>
          /\ ~servoReleaseIsReleased(servo')
          /\ servoReleaseGetState(servo') = SERVO_STATE_LOCKED ]_vars

(***************************************************************************)
(* C6 amended: a wiggle on an unreleased mechanism leaves the latch clear; *)
(* when the servo is attached (or attaches in the call) it commands        *)
(* release then lock and ends LOCKED, and when the attach fails it         *)
(* commands nothing and ends UNKNOWN.  While the latch is clear a Lock on  *)
(* the attached servo is accepted and a Release performs the one-shot      *)
(* release.                                                                *)
(***************************************************************************)
C6_WiggleNeverLatches ==
    [][ /\ (IsCall("Wiggle") /\ ~servoReleaseIsReleased(servo)) =>
             /\ ~servoReleaseIsReleased(servo')
             /\ IF servo'.g_attached
                THEN /\ servoReleaseGetState(servo') = SERVO_STATE_LOCKED
                     /\ last_call'.writes = <<SERVO_POS_RELEASE_DEG, SERVO_POS_LOCK_DEG>>
                ELSE /\ servoReleaseGetState(servo') = SERVO_STATE_UNKNOWN
                     /\ last_call'.writes = <<>>
        /\ (IsCall("Lock") /\ ~servoReleaseIsReleased(servo) /\ servo'.g_attached) =>
             /\ last_call'.ret = TRUE
             /\ last_call'.writes = <<SERVO_POS_LOCK_DEG>>
        /\ (IsCall("Release") /\ ~servoReleaseIsReleased(servo) /\ servo'.g_attached) =>
             /\ last_call'.ret = TRUE
             /\ last_call'.writes = <<SERVO_POS_RELEASE_DEG>>
             /\ servoReleaseIsReleased(servo') ]_vars

\* A wiggle ran on an attached, unreleased mechanism.
C6_Witness ==
    /\ last_call.op = "Wiggle"
    /\ last_call.writes = <<SERVO_POS_RELEASE_DEG, SERVO_POS_LOCK_DEG>>
    /\ n_calls >= 3
    /\ ~servoReleaseIsReleased(servo)
    /\ servoReleaseGetState(servo) = SERVO_STATE_LOCKED

(***************************************************************************)
(* Properties of the flight latches and the cut decision                   *)
(***************************************************************************)
\* An enabled external input is debounced-active in the current readings.
ExtCutActive ==
    \E i \in ExtIdx :
        g_settings.external_inputs[i].enabled /\ g_readings.ext[i].debounced_active

\* The remote cut is enabled in the settings.
RemoteCutEnabled ==
    g_settings.iridium.enabled /\ g_settings.iridium.cutdown_on_command

CutOf(reason) == [should_cut |-> TRUE, reason |-> reason]

\* C1: in every reachable state cut_fired implies terminated, and terminated
\* implies flight_state == FLIGHT_TERMINATED.
C1_CutImpliesTerminated ==
    /\ g_state.cut_fired => g_state.terminated
    /\ g_state.terminated => g_state.flight_state = FLIGHT_TERMINATED

\* The termination detector has ended a launched flight that was never cut.
C1_Witness ==
    /\ g_state.launch_detected
    /\ g_state.terminated
    /\ ~g_state.cut_fired
    /\ g_state.flight_state = FLIGHT_TERMINATED

\* C2: launch_detected, terminated and cut_fired are monotone: no pass of loop()
\* (tick, sensor reading, error set or clear, cut request) sets one of them back
\* to false.
C2_LatchesMonotone ==
    [][ /\ g_state.launch_detected => g_state'.launch_detected
        /\ g_state.terminated => g_state'.terminated
        /\ g_state.cut_fired => g_state'.cut_fired ]_vars

\* All three latches are set and a further tick has run, with the barometer
\* failed (a Critical error active).
C2_Witness ==
    /\ g_state.launch_detected /\ g_state.terminated /\ g_state.cut_fired
    /\ last_tick.ticked /\ last_tick.cut_fired_before
    /\ ERR_ENV_SENSOR \in g_errors

\* C3: in every reachable state cut_reason == CUT_REASON_NONE exactly when
\* cut_fired is false.
C3_ReasonIffCutFired ==
    (g_state.cut_reason = CUT_REASON_NONE) <=> ~g_state.cut_fired

\* A remote command has latched the cut with its reason.
C3_Witness ==
    g_state.cut_fired /\ g_state.cut_reason = CUT_REASON_IRIDIUM_REMOTE

\* C7: on a tick where cut_fired is false the decision is ExternalInput whenever
\* an enabled external input is debounced-active, else IridiumRemote when an
\* enabled remote request is present, else BucketLogic when the gated bucket
\* rule cuts, else no cut.  The bucket rule is evaluated on the tick's inputs
\* and the accumulators the tick started with.
C7_CutSourcePriority ==
    [][ last_tick'.ticked /\ ~last_tick'.cut_fired_before =>
          LET in == [readingsFillCutLogicInputs(g_state', g_readings')
                       EXCEPT !.iridium_remote_cut_request = last_tick'.remote_request]
              ext == ExtCutActive'
              rem == RemoteCutEnabled /\ last_tick'.remote_request
              rule == ruleCut(g_settings, in, g_bucketA_true_s, g_bucketB_true_s).d.should_cut
          IN last_tick'.d = IF ext THEN CutOf(CUT_REASON_EXTERNAL_INPUT)
                            ELSE IF rem THEN CutOf(CUT_REASON_IRIDIUM_REMOTE)
                            ELSE IF rule THEN CutOf(CUT_REASON_BUCKET_LOGIC)
                            ELSE NoCut ]_vars

\* The external input won a tick on which a remote request was present too.
C7_Witness ==
    /\ last_tick.ticked /\ ~last_tick.cut_fired_before
    /\ last_tick.remote_request /\ RemoteCutEnabled
    /\ ExtCutActive
    /\ last_tick.d = CutOf(CUT_REASON_EXTERNAL_INPUT)

\* C8: once cut_fired is true every later tick's decision has should_cut false,
\* whatever its inputs, and the servo is not commanded again: a release is
\* commanded only in the pass that sets cut_fired.
C8_NoCutAfterCutFired ==
    [][ /\ g_state.cut_fired =>
              /\ ~last_tick'.d.should_cut
              /\ ~last_tick'.release_called
              /\ servoVars' = servoVars
        /\ n_calls' # n_calls => ~g_state.cut_fired /\ g_state'.cut_fired ]_vars

\* A tick after the cut on which the external input is still active.
C8_Witness ==
    /\ last_tick.ticked /\ last_tick.cut_fired_before
    /\ ExtCutActive
    /\ ~last_tick.d.should_cut
    /\ n_calls = 3

\* C9: a tick on which the uplink's remote request is read as true (remote cut
\* enabled, cut_fired false before) ends with cut_fired true, the reason being
\* IridiumRemote unless an enabled external input is debounced-active on that
\* tick; and no pass of loop() leaves the request latched.
C9_RemoteRequestCuts ==
    /\ ~iridium.remote_cut_latched
    /\ last_tick.remote_request =>
         /\ RemoteCutEnabled /\ ~last_tick.cut_fired_before
         /\ g_state.cut_fired
         /\ g_state.cut_reason = IF ExtCutActive THEN CUT_REASON_EXTERNAL_INPUT
                                 ELSE CUT_REASON_IRIDIUM_REMOTE

\* A remote request cut the flight with no external input active.
C9_Witness ==
    /\ last_tick.remote_request
    /\ ~ExtCutActive
    /\ g_state.cut_fired /\ g_state.cut_reason = CUT_REASON_IRIDIUM_REMOTE
    /\ last_call.op = "Release"

\* C10: on a tick where cut_fired is false an active external input or an
\* enabled remote request cuts whether or not the global gates pass, and a
\* BucketLogic cut happens only when the gates pass.
C10_GatesOnlyRestrictBucket ==
    last_tick.ticked /\ ~last_tick.cut_fired_before =>
      LET in == readingsFillCutLogicInputs(g_state, g_readings) IN
      /\ ExtCutActive \/ (RemoteCutEnabled /\ last_tick.remote_request) =>
           /\ last_tick.d.should_cut
           /\ last_tick.d.reason \in {CUT_REASON_EXTERNAL_INPUT, CUT_REASON_IRIDIUM_REMOTE}
      /\ last_tick.d.reason = CUT_REASON_BUCKET_LOGIC =>
           globalsAllowRuleCut(g_settings.global_cutdown, in)

\* A remote cut fired before launch with the launch gate set.
C10_Witness ==
    /\ last_tick.ticked /\ ~last_tick.cut_fired_before
    /\ g_settings.global_cutdown.require_launch_before_cut
    /\ ~g_state.launch_detected
    /\ last_tick.d = CutOf(CUT_REASON_IRIDIUM_REMOTE)

(***************************************************************************)
(* C11: on a tick where a global gate blocks and no immediate source       *)
(* fires, no BucketLogic cut is produced and every dwell accumulator of    *)
(* both buckets is 0 after the tick.  The rule engine is consulted only    *)
(* until the cut has fired (C8), so the ticks are those entered with       *)
(* cut_fired false.                                                        *)
(***************************************************************************)
\* The gates as the cut logic saw them on the last tick: launch_detected and the
\* GPS fix are not changed by the steps after the cut inputs are filled.
GateBlocked ==
    ~globalsAllowRuleCut(g_settings.global_cutdown,
                         readingsFillCutLogicInputs(g_state, g_readings))

ImmediateFired ==
    last_tick.d.reason \in {CUT_REASON_EXTERNAL_INPUT, CUT_REASON_IRIDIUM_REMOTE}

\* C11 as an invariant: after a tick entered with cut_fired false on which a gate
\* blocked and neither an external input nor the remote request fired, no cut
\* was decided and all twenty accumulators are 0.
C11_GateBlockResetsDwell ==
    (/\ last_tick.ticked
     /\ ~last_tick.cut_fired_before
     /\ GateBlocked
     /\ ~ImmediateFired)
    => /\ ~last_tick.d.should_cut
       /\ g_bucketA_true_s = ZeroAccum
       /\ g_bucketB_true_s = ZeroAccum

\* The GPS-fix gate blocks on a tick that follows one on which the Bucket B
\* altitude condition was accruing dwell.
C11_Witness ==
    /\ last_tick.ticked
    /\ ~last_tick.cut_fired_before
    /\ GateBlocked
    /\ ~ImmediateFired
    /\ g_settings.global_cutdown.require_gps_fix_before_cut
    /\ g_settings.bucketB[0].enabled /\ g_settings.bucketB[0].for_seconds = 2
    /\ g_state.t_power_s = 2
    /\ g_readings.gps_alt_valid = FALSE
    /\ g_bucketB_true_s = ZeroAccum

(***************************************************************************)
(* C12: with no enabled condition Bucket A evaluates true and Bucket B     *)
(* evaluates false, so a configuration without an enabled Bucket B         *)
(* condition (the factory defaults among them) never cuts for BucketLogic. *)
(***************************************************************************)
NoEnabledB == \A i \in CondIdx : ~g_settings.bucketB[i].enabled

\* C12 as an invariant: on the cut inputs and accumulators of every reachable
\* state an all-disabled Bucket A is true and an all-disabled Bucket B is false;
\* and under a configuration without enabled Bucket B condition neither the last
\* decision nor the latched reason is BucketLogic.
C12_EmptyBucketBNeverCuts ==
    LET in == readingsFillCutLogicInputs(g_state, g_readings) IN
    /\ evalBucketA1Hz(Bucket(<<>>), in, g_bucketA_true_s).ok
    /\ ~evalBucketB1Hz(Bucket(<<>>), in, g_bucketB_true_s).ok
    /\ NoEnabledB => /\ last_tick.d.reason # CUT_REASON_BUCKET_LOGIC
                     /\ g_state.cut_reason # CUT_REASON_BUCKET_LOGIC

\* The factory defaults in flight: the launch gate has opened, no immediate
\* source fired, the rule engine ran on empty buckets and decided no cut.
C12_Witness ==
    /\ g_settings = DefaultConfig
    /\ NoEnabledB
    /\ last_tick.ticked
    /\ ~last_tick.cut_fired_before
    /\ g_state.launch_detected /\ g_state.t_launch_s >= 1
    /\ ~GateBlocked
    /\ ~last_tick.d.should_cut
    /\ ~g_state.cut_fired

(***************************************************************************)
(* C13: a condition with dwell n > 0 is satisfied only after n consecutive *)
(* ticks with a valid variable and a true comparison; one tick with the    *)
(* comparison false or the variable invalid resets its dwell to 0, in      *)
(* every slot of both buckets, whatever the other conditions evaluate to.  *)
(***************************************************************************)
\* The rule engine evaluated the buckets on the last tick.
BucketsEvaluated ==
    /\ last_tick.ticked
    /\ ~last_tick.cut_fired_before
    /\ ~ImmediateFired
    /\ ~GateBlocked

\* dwell[i] of a slot against the consecutive true ticks of its comparison: a
\* tick on which the comparison was not true leaves the dwell at 0, and a dwell
\* that has reached for_seconds was built from that many consecutive true ticks.
DwellFollowsStreak(bucket, dwell, streak) ==
    \A i \in CondIdx :
        (bucket[i].enabled /\ bucket[i].for_seconds > 0)
        => /\ streak[i] = 0 => dwell[i] = 0
           /\ dwell[i] >= bucket[i].for_seconds => streak[i] >= bucket[i].for_seconds

\* C13 as an invariant: after every tick on which the buckets were evaluated
\* the dwell of each slot follows the consecutive true ticks of that slot.
C13_DwellNeedsConsecutiveTicks ==
    BucketsEvaluated
    => /\ DwellFollowsStreak(g_settings.bucketA, g_bucketA_true_s, hist.condA)
       /\ DwellFollowsStreak(g_settings.bucketB, g_bucketB_true_s, hist.condB)

(***************************************************************************)
(* C14: with Bucket A empty, the gates passing and one enabled Bucket B    *)
(* condition of dwell n, the BucketLogic cut fires exactly on the n-th     *)
(* consecutive tick on which the comparison is true (the first one when    *)
(* n = 0), on no earlier tick, and terminated is latched on that tick.     *)
(***************************************************************************)
\* Bucket A empty, exactly slot 0 of Bucket B enabled, no gate, no immediate
\* cut source configured.
SingleBCondition ==
    /\ \A i \in CondIdx : ~g_settings.bucketA[i].enabled
    /\ \A i \in CondIdx : g_settings.bucketB[i].enabled <=> i = 0
    /\ ~g_settings.global_cutdown.require_launch_before_cut
    /\ ~g_settings.global_cutdown.require_gps_fix_before_cut
    /\ \A i \in ExtIdx : ~g_settings.external_inputs[i].enabled
    /\ ~RemoteCutEnabled

\* The consecutive true tick on which a dwell of n is complete.
DwellTick(n) == IF n = 0 THEN 1 ELSE n

\* C14 as an invariant: after every tick entered with cut_fired false, the cut
\* was decided if and only if the tick was the DwellTick(n)-th consecutive true
\* tick of the condition; the decision is BucketLogic and cut_fired and
\* terminated are latched by the end of the tick; without a decision nothing is
\* latched and the run of true ticks is still short of the dwell.
C14_SingleConditionCutsOnNthTick ==
    (SingleBCondition /\ last_tick.ticked /\ ~last_tick.cut_fired_before)
    => LET n == DwellTick(g_settings.bucketB[0].for_seconds) IN
       /\ last_tick.d.should_cut <=> hist.condB[0] = n
       /\ hist.condB[0] <= n
       /\ last_tick.d.should_cut
            => /\ last_tick.d.reason = CUT_REASON_BUCKET_LOGIC
               /\ g_state.cut_fired /\ g_state.cut_reason = CUT_REASON_BUCKET_LOGIC
               /\ g_state.terminated
               /\ g_state.cut_ms = g_state.terminated_ms
       /\ ~last_tick.d.should_cut => ~g_state.cut_fired

\* The dwell of 2 s completes on the second consecutive true tick, which follows
\* at least one tick on which the comparison was not true.
C14_Witness ==
    /\ SingleBCondition
    /\ g_settings.bucketB[0].for_seconds = 2
    /\ last_tick.ticked /\ ~last_tick.cut_fired_before
    /\ last_tick.d.should_cut
    /\ hist.condB[0] = 2
    /\ g_state.t_power_s >= 3
    /\ g_state.terminated

(***************************************************************************)
(* C15: every rule-engine dwell accumulator lies in [0, for_seconds + 1]   *)
(* ticks of its condition, however long the comparison stays true and      *)
(* whatever the other bucket evaluates to.                                 *)
(***************************************************************************)
DwellInRange(bucket, dwell) ==
    \A i \in CondIdx : dwell[i] >= 0 /\ dwell[i] <= bucket[i].for_seconds + 1

\* C15 as an invariant over both accumulator arrays.
C15_DwellAccumulatorsBounded ==
    /\ DwellInRange(g_settings.bucketA, g_bucketA_true_s)
    /\ DwellInRange(g_settings.bucketB, g_bucketB_true_s)

(***************************************************************************)
(* C16: launch_detected latches exactly on the fifth consecutive tick on   *)
(* which the launch candidate predicate holds with no Critical error       *)
(* active; a tick without candidate resets the consecutive count to 0, so  *)
(* fewer than five consecutive candidate ticks never latch launch.         *)
(***************************************************************************)
\* C16 as an invariant.  hist.cand counts the consecutive candidate ticks
\* without Critical error from the samples and stops at the latch: launch is
\* detected exactly when that count has reached five, it never passes five, and
\* after every tick on which the detector was armed s_launch_persist_s equals it.
C16_LaunchOnFifthConsecutiveTick ==
    /\ g_state.launch_detected <=> hist.cand = LAUNCH_PERSIST_REQUIRED_S
    /\ hist.cand <= LAUNCH_PERSIST_REQUIRED_S
    /\ hist.armed => s_launch.persist_s = hist.cand

\* The latch tick: the fifth consecutive candidate tick, at tick 6 or later
\* because the tick that captures a baseline is never a candidate.
C16_Witness ==
    /\ last_tick.ticked
    /\ hist.armed
    /\ hist.cand = LAUNCH_PERSIST_REQUIRED_S
    /\ g_state.launch_detected
    /\ g_state.launch_ms = millis
    /\ g_state.t_power_s = 6

(***************************************************************************)
(* C17: on every tick where a Critical error is active launch_detected is  *)
(* not latched and the launch persistence count is reset to 0, so launch   *)
(* latches no earlier than the fifth candidate tick after the last tick    *)
(* with a Critical error.                                                  *)
(***************************************************************************)
\* C17 as an invariant: after a tick on which the detector was armed and a
\* Critical error was active when it ran, launch is not detected,
\* s_launch_persist_s is 0 and the count of consecutive candidate ticks restarts
\* from 0 (C16 then requires five more).
C17_CriticalErrorSuppressesLaunch ==
    (last_tick.ticked /\ hist.armed /\ hist.crit)
    => /\ ~g_state.launch_detected
       /\ s_launch.persist_s = 0
       /\ hist.cand = 0

\* The barometer fails for the first time on a tick, the fourth or later, on
\* which the GPS altitude is 30 m above its baseline: a launch candidate but for
\* the error, and the persistence count is 0 after it.
C17_Witness ==
    /\ last_tick.ticked /\ hist.armed /\ hist.crit
    /\ g_errors = {ERR_ENV_SENSOR}
    /\ launchGpsRise(s_launch, g_readings)
    /\ hist.gps_only = 1
    /\ g_state.t_power_s >= 4
    /\ s_launch.persist_s = 0

(***************************************************************************)
(* C18: the two launch paths work independently: launch latches from a GPS *)
(* altitude rise on ticks where the pressure reading is invalid, and from  *)
(* a pressure drop on ticks where the GPS altitude is invalid.             *)
(***************************************************************************)
\* C18 as an invariant: five consecutive armed ticks with the GPS altitude at
\* least 30 m above its baseline, the pressure reading invalid and no error but
\* the environmental sensor's have latched launch.
C18_GpsPathLaunchesWithoutPressure ==
    hist.gps_only >= LAUNCH_PERSIST_REQUIRED_S => g_state.launch_detected

\* What the model shows instead: launch never latches on a tick on which the
\* pressure reading is invalid.
LaunchNeedsValidPressure ==
    (last_tick.ticked /\ hist.armed /\ g_state.launch_detected)
    => g_readings.pressure_valid

(***************************************************************************)
(* C19: in flight, with the detector enabled and sustain_s = n >= 1,       *)
(* terminated latches exactly on the n-th consecutive tick on which the    *)
(* descent predicate holds (a tick without it resets descent_count_s to    *)
(* 0), flight_state becomes Terminated on that tick, and cut_fired stays   *)
(* false with cut_reason None.                                             *)
(***************************************************************************)
\* C19 as an invariant, over the ticks on which the detector ran (in flight,
\* unlatched, enabled).  hist.descent counts the consecutive descent ticks from
\* the samples: descent_count_s equals it, it never passes n, and the detector
\* latches terminated with flight_state Terminated exactly when it reaches n.
\* The detector itself leaves the cut latch alone: unless a cut source fired
\* later on the same tick, cut_fired is false and cut_reason None.
C19_TerminatedOnNthDescentTick ==
    (last_tick.ticked /\ hist.detector_ran)
    => LET n == g_settings.term.sustain_s IN
       /\ n >= 1
       /\ ~last_tick.cut_fired_before
       /\ g_state.descent_count_s = hist.descent
       /\ hist.descent <= n
       /\ hist.descent = n
            => /\ g_state.terminated
               /\ g_state.flight_state = FLIGHT_TERMINATED
               /\ g_state.terminated_ms = millis
       /\ ~last_tick.d.should_cut
            => /\ g_state.terminated <=> hist.descent = n
               /\ ~g_state.cut_fired
               /\ g_state.cut_reason = CUT_REASON_NONE

\* Natural termination with sustain_s = 2: the second consecutive descent tick,
\* no cut source firing.
C19_Witness ==
    /\ last_tick.ticked /\ hist.detector_ran
    /\ g_settings.term.sustain_s = 2
    /\ hist.descent = 2
    /\ ~last_tick.d.should_cut
    /\ g_state.terminated
    /\ g_state.flight_state = FLIGHT_TERMINATED
    /\ ~g_state.cut_fired

(***************************************************************************)
(* C20: the termination detector changes no state unless flight_state is   *)
(* InFlight and terminated is false when it runs (and it is enabled), so   *)
(* in every reachable state terminated with cut_fired false implies        *)
(* launch_detected.                                                        *)
(***************************************************************************)
\* C20 as an invariant: run on any reachable state that is not in flight or is
\* already terminated, or with the detector disabled, the detector returns the
\* state unchanged; and a termination without cut has a detected launch.
C20_NoTerminationOnGround ==
    /\ (g_state.flight_state # FLIGHT_IN_FLIGHT \/ g_state.terminated)
         => stateUpdateTerminationDetector1Hz(g_state, g_readings, g_settings.term,
                                              millis) = g_state
    /\ stateUpdateTerminationDetector1Hz(g_state, g_readings,
                                         [g_settings.term EXCEPT !.enabled = FALSE],
                                         millis) = g_state
    /\ (g_state.terminated /\ ~g_state.cut_fired) => g_state.launch_detected

\* A natural termination in flight; before launch the same pressure samples
\* (any reading is a rise over the initial minimum of 0) latched nothing.
C20_Witness ==
    /\ g_state.terminated
    /\ ~g_state.cut_fired
    /\ g_state.launch_detected
    /\ g_state.flight_state = FLIGHT_TERMINATED
    /\ hist.detector_ran
    /\ g_state.terminated_ms > g_state.launch_ms

(***************************************************************************)
(* C21: flight_state never moves to an earlier phase: over any execution   *)
(* its value is non-decreasing in the order Ground < InFlight <            *)
(* Terminated.                                                             *)
(***************************************************************************)
FlightRank(fs) ==
    CASE fs = FLIGHT_GROUND     -> 0
      [] fs = FLIGHT_IN_FLIGHT  -> 1
      [] fs = FLIGHT_TERMINATED -> 2

\* C21 as an action property: no pass of loop() lowers the rank of flight_state.
C21_FlightStateMonotone ==
    [][FlightRank(g_state'.flight_state) >= FlightRank(g_state.flight_state)]_vars

\* A flight that has been through all three phases: terminated by the detector
\* after launch, with ticks taken after the termination.
C21_Witness ==
    /\ g_state.flight_state = FLIGHT_TERMINATED
    /\ g_state.launch_detected
    /\ ~g_state.cut_fired
    /\ g_state.t_launch_s >= 1
    /\ g_state.t_terminated_s >= 1

(***************************************************************************)
(* C22: at the end of every completed tick flight_state equals Terminated  *)
(* if terminated, else InFlight if launch_detected, else Ground: the       *)
(* recomputation sees the latches set during that same tick.               *)
(***************************************************************************)
\* C22 as an invariant over the states that end a tick.
C22_FlightStateMatchesLatches ==
    last_tick.ticked => g_state.flight_state = DerivedFlightState(g_state)

\* What the model shows instead: flight_state agrees with the latches as they
\* were when the tick began, except that a termination latched during the tick
\* is already shown.
FlightStateLagsLaunch ==
    last_tick.ticked
    => \/ g_state.flight_state = DerivedFlightState(g_state)
       \/ /\ hist.armed /\ g_state.launch_detected /\ ~g_state.terminated
          /\ g_state.flight_state = FLIGHT_GROUND

(***************************************************************************)
(* C24: the per-tick log record is emitted after the cut latch of that     *)
(* tick: the record written on the tick on which a cut fires carries       *)
(* cut_fired = true and that cut's reason.                                 *)
(***************************************************************************)
\* C24 as an invariant: after a tick that decided a cut and wrote a record, the
\* record shows the cut and its reason.
C24_LogRecordCarriesCut ==
    (last_tick.ticked /\ last_tick.d.should_cut /\ sd_line.written)
    => /\ sd_line.cut_fired
       /\ sd_line.cut_reason = last_tick.d.reason

\* What the model shows instead: the record of the cut tick is the state before
\* the latch.
LogRecordPrecedesCut ==
    (last_tick.ticked /\ last_tick.d.should_cut /\ sd_line.written)
    => /\ ~sd_line.cut_fired
       /\ sd_line.cut_reason = CUT_REASON_NONE

(***************************************************************************)
(* C23: the cut decision observes the launch latch set in the same tick:   *)
(* with require_launch_before_cut set, on the tick where launch_detected   *)
(* becomes true the gate already passes, so with Bucket A satisfied and an *)
(* immediate Bucket B condition true a BucketLogic cut fires on that tick. *)
(***************************************************************************)
\* The last tick latched launch.
LaunchLatchedThisTick == last_tick.ticked /\ hist.armed /\ g_state.launch_detected

\* On the last tick every enabled Bucket A condition was immediate and true and
\* some enabled Bucket B condition was immediate and true.
ImmediateRuleTrue ==
    /\ \A i \in CondIdx :
          g_settings.bucketA[i].enabled
          => g_settings.bucketA[i].for_seconds = 0 /\ hist.condA[i] >= 1
    /\ \E i \in CondIdx :
          /\ g_settings.bucketB[i].enabled
          /\ g_settings.bucketB[i].for_seconds = 0
          /\ hist.condB[i] >= 1

\* C23 as an invariant: after a tick that latched launch under the launch gate
\* alone, with no cut fired before and no immediate source firing, the rule
\* whose conditions were true was decided as a BucketLogic cut on that tick and
\* the cut is latched.
C23_CutSeesLaunchOfSameTick ==
    (/\ LaunchLatchedThisTick
     /\ g_settings.global_cutdown.require_launch_before_cut
     /\ ~g_settings.global_cutdown.require_gps_fix_before_cut
     /\ ~last_tick.cut_fired_before
     /\ ~ImmediateFired
     /\ ImmediateRuleTrue)
    => /\ ~GateBlocked
       /\ last_tick.d.should_cut
       /\ last_tick.d.reason = CUT_REASON_BUCKET_LOGIC
       /\ g_state.cut_fired /\ g_state.cut_reason = CUT_REASON_BUCKET_LOGIC
       /\ g_state.cut_ms = g_state.launch_ms

\* Launch latched and the time rule cut on the same tick; the rule had been
\* true on every tick before it, behind the closed gate.
C23_Witness ==
    /\ LaunchLatchedThisTick
    /\ g_settings.global_cutdown.require_launch_before_cut
    /\ ImmediateRuleTrue
    /\ hist.condB[0] >= 6
    /\ last_tick.d.reason = CUT_REASON_BUCKET_LOGIC
    /\ g_state.cut_fired
    /\ g_state.flight_state = FLIGHT_TERMINATED

(***************************************************************************)
(* The 1 Hz scheduler (SpecSched).  sched_log holds one record per call of *)
(* stateTick1Hz; its first record is the call that armed the scheduler.    *)
(***************************************************************************)
RECURSIVE SumDt(_)
SumDt(log) ==
    IF log = <<>> THEN 0
    ELSE SumDt(SubSeq(log, 1, Len(log) - 1)) + log[Len(log)].dt_s

LastCall == sched_log[Len(sched_log)]

TickEmitted == Len(sched_log) > 0 /\ LastCall.ret

\* Whole seconds from the arming call to the last call, by the millisecond counter.
SecondsSinceArmed == U32Div1000(U32Sub(LastCall.now_ms, sched_log[1].now_ms))

\* The whole seconds a call found elapsed: 1 + (now_ms - deadline) / 1000.
ElapsedAt(c) == U32Add(1, U32Div1000(U32Sub(c.now_ms, c.deadline)))

\* No emitted tick so far covered more seconds than last_elapsed_s can hold.
NoClampedTick ==
    \A i \in 1..Len(sched_log) :
        sched_log[i].ret => ElapsedAt(sched_log[i]) <= U16Max

\* C25 as stated: at every call that emits a tick, the seconds reported since
\* the scheduler was armed, and t_power_s, equal floor((now_ms - init_ms) / 1000),
\* whatever the call times were.
C25_Original ==
    TickEmitted =>
        /\ SumDt(sched_log) = SecondsSinceArmed
        /\ g_state.t_power_s = SecondsSinceArmed

\* C25: at every call that emits a tick, provided no tick so far covered more
\* than 0xFFFF seconds, the sum of the reported dt_s, and t_power_s, equal
\* floor((now_ms - init_ms) / 1000), init_ms being the time of the arming call.
C25_SumOfDtIsElapsedSeconds ==
    TickEmitted /\ NoClampedTick =>
        /\ SumDt(sched_log) = SecondsSinceArmed
        /\ g_state.t_power_s = SecondsSinceArmed

\* A tick emitted after a stall of more than 10 s, following an earlier tick.
C25_Witness ==
    /\ TickEmitted
    /\ NoClampedTick
    /\ LastCall.dt_s > 10
    /\ \E i \in 2..(Len(sched_log) - 1) : sched_log[i].ret
    /\ SumDt(sched_log) = SecondsSinceArmed

\* The stall scenario: armed at 0 ms, a tick at 1000 ms, the next call at 12,500 ms.
StallScenario ==
    /\ Len(sched_log) >= 3
    /\ sched_log[1].now_ms = 0
    /\ sched_log[2].now_ms = 1000 /\ sched_log[2].ret
    /\ sched_log[3].now_ms = 12500

\* Call i and every call from the fourth up to it came 1000 ms after the one before.
OnCadenceSince4(i) ==
    \A j \in 4..i : sched_log[j].now_ms = sched_log[j - 1].now_ms + 1000

\* C26 as stated: in the stall scenario the call at 12,500 ms returns dt_s = 12
\* and the subsequent due calls return dt_s = 1.
C26_Original ==
    StallScenario =>
        /\ sched_log[3].ret /\ sched_log[3].dt_s = 12
        /\ \A i \in 4..Len(sched_log) :
               OnCadenceSince4(i) /\ sched_log[i].ret => sched_log[i].dt_s = 1

\* C26: in the stall scenario the call at 12,500 ms emits a tick with dt_s = 11
\* (12 s reported in all since 0 ms) and leaves the deadline at 13,000 ms; the
\* calls that follow at 1000 ms intervals are all due and return dt_s = 1.
C26_StallRecoveryScenario ==
    StallScenario =>
        /\ sched_log[3].ret /\ sched_log[3].dt_s = 11
        /\ sched_log[3].next = 13000
        /\ sched_log[2].dt_s + sched_log[3].dt_s = 12
        /\ \A i \in 4..Len(sched_log) :
               OnCadenceSince4(i) => sched_log[i].ret /\ sched_log[i].dt_s = 1

\* The scenario followed by two calls on cadence, at 13,500 and 14,500 ms.
C26_Witness ==
    /\ StallScenario
    /\ Len(sched_log) = 5
    /\ OnCadenceSince4(5)
    /\ sched_log[5].now_ms = 14500
    /\ sched_log[5].ret

\* The last call emitted a tick that covers more than 10 s.
LongStallTick ==
    /\ TickEmitted
    /\ ElapsedAt(LastCall) > 10

\* How far past the deadline's 1000 ms grid the last call came, in ms.
PastGrid == U32Sub(LastCall.now_ms, U32Sub(LastCall.next, 1000))

ArmedCall == Len(sched_log) > 0 /\ LastCall.armed

ArmingCall == Len(sched_log) > 0 /\ ~LastCall.armed

\* (now_ms - deadline) mod 2^32 read as a signed 32-bit value is >= 0.
AtOrPastDeadline == U32Sub(LastCall.now_ms, LastCall.deadline) >= 0

\* The millisecond counter wrapped to 0 between the stored deadline and now_ms.
WrappedSinceDeadline ==
    /\ ArmedCall
    /\ LastCall.deadline < 0 /\ LastCall.deadline >= -3000
    /\ LastCall.now_ms >= 0  /\ LastCall.now_ms < 2147480000

\* C28 as stated: a tick is emitted exactly at or past the deadline in the signed
\* difference, it reports dt_s = 1 + floor(((now_ms - deadline) mod 2^32) / 1000),
\* and the first call only arms the deadline at now_ms + 1000.
C28_Original ==
    /\ ArmedCall => (LastCall.ret <=> AtOrPastDeadline)
    /\ TickEmitted => LastCall.dt_s = ElapsedAt(LastCall) /\ LastCall.dt_s >= 1
    /\ ArmingCall => ~LastCall.ret /\ LastCall.next = U32Add(LastCall.now_ms, 1000)

\* C28: a tick is emitted exactly when the signed difference now_ms - deadline
\* (modulo 2^32) is >= 0, counter wrap included; it reports
\* dt_s = min(1 + floor(((now_ms - deadline) mod 2^32) / 1000), 0xFFFF), which is
\* >= 1; the first call only arms the deadline at now_ms + 1000 and emits nothing.
C28_WrapSafeDeadline ==
    /\ ArmedCall => (LastCall.ret <=> AtOrPastDeadline)
    /\ TickEmitted =>
          /\ LastCall.dt_s = (IF ElapsedAt(LastCall) > U16Max THEN U16Max
                              ELSE ElapsedAt(LastCall))
          /\ LastCall.dt_s >= 1
    /\ ArmingCall => ~LastCall.ret /\ LastCall.next = U32Add(LastCall.now_ms, 1000)

\* A tick emitted by a call made after the counter wrapped, against a deadline
\* stored before the wrap.
C28_Witness ==
    /\ WrappedSinceDeadline
    /\ LastCall.ret
    /\ LastCall.dt_s = ElapsedAt(LastCall)

(***************************************************************************)
(* The uplink (SpecUplink).  last_tick.tx holds what iridiumUpdate1Hz saw   *)
(* on entry and whether it opened a session.                               *)
(***************************************************************************)
\* The interval the phase table gives for the state iridiumUpdate1Hz saw.
PhaseInterval(tx, icfg) ==
    IF ~tx.launch_detected THEN icfg.ground_interval_s
    ELSE IF ~tx.terminated THEN icfg.ascent_interval_s
    ELSE IF icfg.descent_duration_s # 0 /\ tx.t_terminated_s <= icfg.descent_duration_s
    THEN icfg.descent_interval_s
    ELSE icfg.beacon_interval_s

\* A session is owed: none was opened yet, or the interval has passed since the last.
IntervalPassed(tx, interval_s) ==
    tx.first \/ U32Ge(tx.since_ms, U32Mul1000(interval_s))

\* C29: on every tick the uplink opens a session exactly when the interval of the
\* phase (ground before launch, ascent while launched and not terminated, descent
\* while terminated with descent_duration_s # 0 and t_terminated_s <=
\* descent_duration_s, beacon otherwise) is not 0 and has passed since the last
\* session; with an interval of 0 no session is opened in that phase.
C29_TxIntervalFollowsPhase ==
    last_tick.ticked /\ g_settings.iridium.enabled =>
        /\ last_tick.tx.started <=>
              /\ PhaseInterval(last_tick.tx, g_settings.iridium) > 0
              /\ IntervalPassed(last_tick.tx, PhaseInterval(last_tick.tx, g_settings.iridium))
        /\ PhaseInterval(last_tick.tx, g_settings.iridium) = 0 => ~last_tick.tx.started

\* A session opened on the last second of the descent window, at the descent
\* interval, where the beacon interval is 0.
C29_Witness ==
    /\ last_tick.ticked
    /\ g_settings.iridium.descent_duration_s # 0
    /\ last_tick.tx.terminated
    /\ last_tick.tx.t_terminated_s = g_settings.iridium.descent_duration_s
    /\ g_settings.iridium.beacon_interval_s = 0
    /\ last_tick.tx.started

\* Beacon phase entered directly on termination (descent_duration_s = 0): a
\* session opened at the beacon interval on a tick that began terminated.
BeaconDirectlyOnTermination ==
    /\ last_tick.ticked
    /\ g_settings.iridium.descent_duration_s = 0
    /\ last_tick.tx.terminated /\ last_tick.tx.launch_detected
    /\ last_tick.tx.started

\* A tick in a phase whose interval is 0, with a session long overdue by any
\* other phase's interval: none is opened.
SilentPhase ==
    /\ last_tick.ticked
    /\ PhaseInterval(last_tick.tx, g_settings.iridium) = 0
    /\ last_tick.tx.launch_detected
    /\ ~last_tick.tx.first /\ last_tick.tx.since_ms >= 12000
    /\ ~last_tick.tx.started

\* The session of the last tick succeeded and delivered a valid cut command.
CutCommandReceived ==
    /\ last_tick.ticked
    /\ last_tick.tx.started
    /\ last_tick.session.ok
    /\ last_tick.session.rx.present
    /\ parseCutCommand(last_tick.session.rx, g_settings)

\* The cut logic of the last tick fired with the remote command as its reason.
RemoteCutFired ==
    /\ last_tick.ticked
    /\ last_tick.d.should_cut
    /\ last_tick.d.reason = CUT_REASON_IRIDIUM_REMOTE

\* C30: a cut command received when cut_fired or terminated is set (at the end
\* of the session that delivered it) leaves no request; a cut with reason
\* IridiumRemote fires only on a tick whose flight had not terminated, by the
\* detector or by a cut, when the command was handled, and only on a request.
C30_NoRemoteCutAfterTermination ==
    /\ CutCommandReceived /\ (last_tick.cut_fired_before \/ last_tick.terminated_before)
          => ~last_tick.remote_request
    /\ RemoteCutFired =>
          /\ last_tick.remote_request
          /\ ~last_tick.terminated_before /\ ~last_tick.cut_fired_before
          /\ g_state.cut_reason = CUT_REASON_IRIDIUM_REMOTE

\* C30, across steps: once the flight has terminated no later pass of loop()
\* fires a cut with reason IridiumRemote.
NoRemoteCutOnceTerminated ==
    [][g_state.terminated => ~RemoteCutFired']_vars

\* A valid cut command delivered by a session during which the termination
\* detector latched: the session began in flight, ended terminated, and the
\* command left no request and no cut.
C30_Witness ==
    /\ CutCommandReceived
    /\ ~last_tick.tx.terminated
    /\ last_tick.terminated_before
    /\ ~last_tick.cut_fired_before
    /\ ~last_tick.remote_request
    /\ ~g_state.cut_fired

\* A valid cut command delivered in flight before termination: the remote cut fires.
RemoteCutInFlight ==
    /\ CutCommandReceived
    /\ last_tick.tx.launch_detected
    /\ RemoteCutFired
    /\ g_state.cut_reason = CUT_REASON_IRIDIUM_REMOTE

(***************************************************************************)
(* External inputs (SpecExt).                                              *)
(***************************************************************************)
\* min(60000, 1000 x n)
CappedAccum(n) == IF n >= 60 THEN 60000 ELSE 1000 * n

\* C31: after every tick, for each enabled external input, active_accum_ms is
\* min(60000, 1000 x the consecutive most recent ticks sampled active) and
\* debounced_active holds exactly when active_accum_ms >= debounce_ms; an inactive
\* sample leaves the accumulator at 0; a disabled input reads inactive with
\* accumulator 0.
C31_ExternalInputDebounce ==
    last_tick.ticked =>
        \A i \in ExtIdx :
            LET e == g_readings.ext[i]
                x == g_settings.external_inputs[i]
            IN IF x.enabled
               THEN /\ e.active_accum_ms = CappedAccum(hist.ext[i])
                    /\ e.debounced_active <=> (e.active_accum_ms >= x.debounce_ms)
                    /\ e.raw_active <=> (hist.ext[i] > 0)
                    /\ ~e.raw_active => e.active_accum_ms = 0
               ELSE /\ ~e.raw_active /\ ~e.debounced_active
                    /\ e.active_accum_ms = 0

\* Input 0 sampled active on 61 consecutive ticks: the accumulator stands at its
\* cap, which is the debounce time, and the input reads active.
C31_Witness ==
    /\ last_tick.ticked
    /\ g_settings.external_inputs[0].enabled
    /\ hist.ext[0] = 61
    /\ g_readings.ext[0].active_accum_ms = 60000
    /\ g_readings.ext[0].debounced_active

\* Input 1, active-low with a debounce above the cap, sampled active for more
\* than a minute: capped and never debounced-active.
ExtNeverDebounced ==
    /\ last_tick.ticked
    /\ g_settings.external_inputs[1].enabled
    /\ hist.ext[1] = 61
    /\ g_readings.ext[1].active_accum_ms = 60000
    /\ ~g_readings.ext[1].debounced_active


(***************************************************************************)
(* SpecSustain: flights whose termination detector has sustain_s = 0 or 1   *)
(***************************************************************************)
\* validateBlob does not look at SystemConfig.term, so a stored configuration
\* holds any uint16 in sustain_s.
SustainConfigs ==
    { [DefaultConfig EXCEPT !.term.sustain_s = 0],
      [DefaultConfig EXCEPT !.term.sustain_s = 1] }

InitSustain == Setup(SustainConfigs)

SustainLoopIdle == loopNoTick(MaxSustainTicks)

SustainLoopTick == loopTick(MaxSustainTicks, FlightEnvs(g_settings), {"ok"}, {NoSession})

NextSustain == SustainLoopIdle \/ SustainLoopTick

SpecSustain == InitSustain /\ [][NextSustain]_vars

\* The termination detector latched terminated on the last tick: it ran in
\* flight and unlatched, and g_state.terminated was set before the cut decision.
DetectorLatched ==
    /\ last_tick.ticked
    /\ hist.detector_ran
    /\ last_tick.terminated_before

\* C37: for every sustain_s, 0 included, the termination detector latches
\* terminated only on a tick on which the descent predicate is true.
C37_TerminationOnlyOnDescent ==
    DetectorLatched => hist.descent >= 1

\* The flight of C37's failing input: sustain_s = 0, the detector latches on a
\* tick without descent.
C37_LatchedWithoutDescent ==
    /\ g_settings.term.sustain_s = 0
    /\ DetectorLatched
    /\ hist.descent = 0


\* A second call of each latch function, at a time `later` after a first call at
\* millis, leaves the stamps of the first.
LatchCallsKeepFirstStamp ==
    \A later \in {millis, U32Add(millis, 1000), U32Add(millis, 5000)} :
      /\ LET a == stateSetLaunchDetected(g_state, millis)
         IN stateSetLaunchDetected(a, later).launch_ms = a.launch_ms
      /\ LET b == stateSetTerminated(g_state, millis)
             c == stateSetTerminated(b, later)
         IN c.terminated_ms = b.terminated_ms /\ c.t_terminated_s = b.t_terminated_s
      /\ LET d == stateSetCutFired(g_state, CUT_REASON_EXTERNAL_INPUT, millis)
             e == stateSetCutFired(d, CUT_REASON_BUCKET_LOGIC, later)
         IN /\ e.cut_ms = d.cut_ms /\ e.cut_reason = d.cut_reason
            /\ e.terminated_ms = d.terminated_ms
            /\ e.t_terminated_s = d.t_terminated_s

\* One pass of loop() keeps the stamps of latches already set; the seconds since
\* termination never go back.
LatchStampsKept ==
    /\ g_state.launch_detected =>
         g_state'.launch_detected /\ g_state'.launch_ms = g_state.launch_ms
    /\ g_state.terminated =>
         /\ g_state'.terminated
         /\ g_state'.terminated_ms = g_state.terminated_ms
         /\ g_state'.t_terminated_s >= g_state.t_terminated_s
    /\ g_state.cut_fired =>
         /\ g_state'.cut_fired
         /\ g_state'.cut_ms = g_state.cut_ms
         /\ g_state'.cut_reason = g_state.cut_reason

\* C33: latch timestamps are written once: later calls of stateSetLaunchDetected,
\* stateSetTerminated and stateSetCutFired leave launch_ms, terminated_ms, cut_ms
\* and cut_reason unchanged, and a cut after a natural termination neither alters
\* terminated_ms nor restarts t_terminated_s.
C33_LatchStampsWrittenOnce ==
    [] LatchCallsKeepFirstStamp /\ [][LatchStampsKept]_vars

\* A cut fired on a tick after the termination detector had latched: the cut
\* stamp is later than the termination stamp, which the cut left alone.
C33_Witness ==
    /\ g_state.cut_fired
    /\ g_state.launch_detected
    /\ last_tick.release_called
    /\ last_tick.terminated_before
    /\ g_state.cut_ms # g_state.terminated_ms
    /\ g_state.t_terminated_s >= 1


\* C34: at the end of every tick cut_fired implies that the release latch is
\* set, for every outcome of the servo attach attempt.
C34_CutImpliesReleaseLatched ==
    g_state.cut_fired => servoReleaseIsReleased(servo)

\* The state of C34's failing input: the cut is latched, servoReleaseRelease was
\* called and returned false because the attach failed, the latch is not set.
C34_CutWithoutRelease ==
    /\ g_state.cut_fired
    /\ last_tick.release_called
    /\ last_call.op = "Release" /\ ~last_call.ret
    /\ ~servoReleaseIsReleased(servo)

\* Once the cut is latched the cut decision is never taken again, so the
\* release is never commanded a second time.
CutNeverRetried ==
    [][g_state.cut_fired => ~last_tick'.release_called]_vars


\* C38 as stated: flight_state changes only by the steps Ground to InFlight and
\* InFlight to Terminated; Terminated is never entered directly from Ground.
C38_Original ==
    [][/\ g_state.flight_state = FLIGHT_GROUND =>
            g_state'.flight_state \in {FLIGHT_GROUND, FLIGHT_IN_FLIGHT}
       /\ g_state.flight_state = FLIGHT_IN_FLIGHT =>
            g_state'.flight_state \in {FLIGHT_IN_FLIGHT, FLIGHT_TERMINATED}
       /\ g_state.flight_state = FLIGHT_TERMINATED =>
            g_state'.flight_state = FLIGHT_TERMINATED]_vars

\* C38: flight_state never goes back in the order Ground, InFlight, Terminated;
\* it may go from Ground directly to Terminated, on a pass that latches
\* terminated (a cut that fires before the flight state became InFlight).
C38_FlightStateNeverBack ==
    [][/\ g_state.flight_state = FLIGHT_IN_FLIGHT => g_state'.flight_state # FLIGHT_GROUND
       /\ g_state.flight_state = FLIGHT_TERMINATED =>
            g_state'.flight_state = FLIGHT_TERMINATED
       /\ (g_state.flight_state = FLIGHT_GROUND /\ g_state'.flight_state = FLIGHT_TERMINATED)
            => ~g_state.terminated /\ g_state'.terminated]_vars

\* A cut fired on the ground: the flight is Terminated and was never launched.
C38_Witness ==
    /\ g_state.flight_state = FLIGHT_TERMINATED
    /\ ~g_state.launch_detected
    /\ g_state.cut_fired
    /\ last_tick.release_called


\* The 1 Hz ticks stateTick1Hz emitted during the last pass of loop(): the one
\* loop() took and those the uplink service callback took during the session.
TicksEmitted ==
    (IF last_tick.ticked THEN 1 ELSE 0) + last_tick.session.ticks

\* The runs of the whole pipeline (time update, readings refresh, launch
\* detector, termination detector, cut decision) during the last pass.
PipelineRuns ==
    IF last_tick.ticked THEN 1 ELSE 0

\* C39: every tick emitted by the scheduler runs the whole per-tick pipeline
\* before another tick is emitted, also while an uplink session is in progress.
C39_EveryTickRunsWholePipeline ==
    TicksEmitted = PipelineRuns

\* The pass of C39's failing input: a tick fell due during the uplink session
\* and the service callback took it; the seconds counter moved on, the cut
\* decision of the pass had been left for after the session.
C39_TickTakenBySession ==
    /\ last_tick.ticked
    /\ last_tick.session.ticks >= 1
    /\ g_state.t_power_s >= 2


\* The consecutive true ticks a condition needs to count as satisfied.
NeedTicks(c) == IF c.for_seconds = 0 THEN 1 ELSE c.for_seconds

\* The longest dwell among the enabled Bucket A conditions and slot j of Bucket B.
LongestDwell(cfg, j) ==
    LET need == {NeedTicks(cfg.bucketA[i]) : i \in {k \in CondIdx : cfg.bucketA[k].enabled}}
                \cup {NeedTicks(cfg.bucketB[j])}
    IN CHOOSE n \in need : \A m \in need : m <= n

\* C36: each enabled condition's dwell advances on every tick on which its
\* comparison is true: with the gates open and every enabled Bucket A condition
\* and one enabled Bucket B condition true on every tick, the BucketLogic cut has
\* fired by the tick on which the longest for_seconds among them has elapsed.
C36_CutByLongestDwell ==
    \A j \in {k \in CondIdx : g_settings.bucketB[k].enabled} :
       ( /\ ~g_settings.global_cutdown.require_launch_before_cut
         /\ ~g_settings.global_cutdown.require_gps_fix_before_cut
         /\ \A i \in {k \in CondIdx : g_settings.bucketA[k].enabled} :
              hist.condA[i] >= LongestDwell(g_settings, j)
         /\ hist.condB[j] >= LongestDwell(g_settings, j) )
       => g_state.cut_fired

\* The state of C36's failing input: both Bucket A conditions have been true on
\* two consecutive ticks, their dwell is 2 s, Bucket B is true, and no cut has
\* fired: the accumulator of slot 1 only started when slot 0 was satisfied.
C36_DwellElapsedNoCut ==
    /\ g_settings.bucketA[0].for_seconds = 2 /\ g_settings.bucketA[1].for_seconds = 2
    /\ g_settings.bucketA[0].enabled /\ g_settings.bucketA[1].enabled
    /\ hist.condA[0] = 2 /\ hist.condA[1] = 2 /\ hist.condB[0] >= 2
    /\ ~g_state.cut_fired
    /\ g_bucketA_true_s[0] = 2 /\ g_bucketA_true_s[1] = 1


(***************************************************************************)
(* SpecConfig: power-on with any stored blob, config mode, save, reboot    *)
(***************************************************************************)
\* g_settings before settingsInit: a zero-initialized global.
ZeroConfig ==
    [global_cutdown |-> [require_launch_before_cut |-> FALSE,
                         require_gps_fix_before_cut |-> FALSE],
     bucketA |-> [i \in CondIdx |-> [enabled |-> FALSE, var_id |-> 0, op |-> 0, value |-> 0,
                                     value_finite |-> TRUE, for_seconds |-> 0]],
     bucketB |-> [i \in CondIdx |-> [enabled |-> FALSE, var_id |-> 0, op |-> 0, value |-> 0,
                                     value_finite |-> TRUE, for_seconds |-> 0]],
     external_inputs |-> [i \in ExtIdx |-> ExtCfg(FALSE, FALSE, 0)],
     iridium |-> [enabled |-> FALSE, cutdown_on_command |-> FALSE, cutdown_token |-> "",
                  ground_interval_s |-> 0, ascent_interval_s |-> 0,
                  descent_interval_s |-> 0, descent_duration_s |-> 0,
                  beacon_interval_s |-> 0, mailbox_check_interval_s |-> 0],
     device |-> [serial_number |-> 0, ap_password_len |-> 0],
     term |-> [enabled |-> FALSE, sustain_s |-> 0, gps_drop_m |-> 0,
               pressure_rise_hpa |-> 0, use_gps |-> FALSE, use_pressure |-> FALSE]]

\* A stored configuration that differs from the defaults in every group.
RichConfig ==
    SystemConfig(<<FALSE, TRUE>>, <<Cond(VAR_GPS_ALT_M, OP_GTE, 30, 2)>>,
                 <<Cond(VAR_T_POWER_S, OP_GTE, 1, 0)>>,
                 ExtCfg(FALSE, TRUE, 50), ExtCfg(TRUE, FALSE, 2000),
                 IridiumCfg(TRUE, TRUE, 10))

\* What NVS may hold at power-on: nothing, a valid blob, and blobs that differ
\* from it in one field.
BootBlobs ==
    { [StorageBlob(ZeroConfig) EXCEPT !.stored = FALSE],
      StorageBlob(RichConfig),
      [StorageBlob(RichConfig) EXCEPT !.magic_ok = FALSE],
      [StorageBlob(RichConfig) EXCEPT !.version_ok = FALSE],
      [StorageBlob(RichConfig) EXCEPT !.reserved = 1],
      [StorageBlob(RichConfig) EXCEPT !.config.device.serial_number = SERIAL_MAX + 1],
      [StorageBlob(RichConfig) EXCEPT !.config.bucketA[5].var_id = VAR__COUNT],
      [StorageBlob(RichConfig) EXCEPT !.config.bucketB[0].op = OP_GT + 1],
      [StorageBlob(RichConfig) EXCEPT !.config.bucketA[0].value_finite = FALSE],
      [StorageBlob(RichConfig) EXCEPT !.config.iridium.ascent_interval_s = 5],
      [StorageBlob(RichConfig) EXCEPT !.config.iridium.beacon_interval_s = INTERVAL_MAX_S + 1],
      [StorageBlob(RichConfig) EXCEPT !.config.iridium.descent_duration_s = 5],
      [StorageBlob(RichConfig) EXCEPT !.config.device.ap_password_len = 5] }

Row(enabled, var, op, value, for_s) ==
    [enabled |-> enabled, var |-> <<var>>, op |-> <<op>>, value |-> <<value>>,
     for_s |-> <<for_s>>]

\* The requests a browser may post to /save.
Forms ==
    { \* nothing but the unchecked boxes
      EmptyForm,
      \* a Bucket A rule and a Bucket B rule, ticked
      [EmptyForm EXCEPT !.a[0] = Row(<<"on">>, "gps_alt_m", "gte", FloatText("", <<3, 0>>), <<2>>),
                        !.b[0] = Row(<<"on">>, "t_power_s", "gt", FloatText("", <<6, 0>>), <<>>)],
      \* Iridium switched on with intervals in range
      [EmptyForm EXCEPT !.ir_enabled = <<"on">>, !.ir_ascent_s = <<<<6, 0>>>>,
                        !.ir_descent_s = <<<<3, 0>>>>, !.ir_beacon_s = <<<<3, 6, 0, 0>>>>],
      \* Iridium left off, an ascent interval of 5 s typed in
      [EmptyForm EXCEPT !.ir_enabled = <<"off">>, !.ir_ascent_s = <<<<5>>>>],
      \* Iridium on, a beacon interval of 700000 s
      [EmptyForm EXCEPT !.ir_enabled = <<"on">>, !.ir_beacon_s = <<<<7, 0, 0, 0, 0, 0>>>>],
      \* Iridium on, an ascent interval of 5 s
      [EmptyForm EXCEPT !.ir_enabled = <<"on">>, !.ir_ascent_s = <<<<5>>>>],
      \* an unticked Bucket B row whose value field reads "nan"
      [EmptyForm EXCEPT !.b[1] = Row(<<>>, "temp_C", "lt", FloatText("nan", <<>>), <<1, 0>>)],
      \* a ticked row whose value field reads "inf"
      [EmptyForm EXCEPT !.a[0] = Row(<<"on">>, "temp_C", "lt", FloatText("inf", <<>>), <<>>)],
      \* a password of 5 characters
      [EmptyForm EXCEPT !.ap_password = <<5>>],
      \* a serial number of 8 digits, a password of 40 characters
      [EmptyForm EXCEPT !.serial_number = <<<<1, 2, 3, 4, 5, 6, 7, 8>>>>, !.ap_password = <<40>>],
      \* a debounce of 6000 ms on input 1, text after the digits
      [EmptyForm EXCEPT !.ext_debounce_ms[1] = <<<<6, 0, 0, 0, NonDigit, 5>>>>] }

InitConfig ==
    /\ millis = 0
    /\ g_settings = ZeroConfig
    /\ g_state = stateInit(0)
    /\ g_readings = readingsInit
    /\ s_launch = resetLaunchDetectionRuntime
    /\ g_errors = {}
    /\ g_bucketA_true_s = ZeroAccum
    /\ g_bucketB_true_s = ZeroAccum
    /\ iridium = iridiumInit(ZeroConfig.iridium, TRUE)
    /\ sd_line = NoLine
    /\ last_tick = NoTick
    /\ hist = NoHist
    /\ sched_log = <<>>
    /\ nvs \in BootBlobs
    /\ boots = [n |-> 0, load_ok |-> FALSE, hold |-> FALSE]
    /\ web = NoRequest
    /\ servo = ServoStatics
    /\ last_call = NoCall
    /\ n_calls = 0
    /\ angle_log = <<>>
    /\ phase = "off"

\* setup() after power-on or ESP.restart(): RAM starts from its initial values.
\* When the config button is held (hold), webconfigCheckHoldAtBoot restores the
\* defaults and restarts before the rest of setup() runs.
Boot ==
    /\ phase \in {"off", "saved", "restart"}
    /\ boots.n < MaxBoots
    /\ \E write_ok \in BOOLEAN, hold \in BOOLEAN, gps_ok \in BOOLEAN, attach_ok \in BOOLEAN :
       \E si \in {settingsInit(ZeroConfig, nvs, write_ok)} :
       \E rs \in {settingsResetToDefaultsAndSave(si.cfg, si.blob, write_ok)} :
       \E i \in {servoReleaseInit(ServoStatics, attach_ok)} :
       \E w \in {servoReleaseWiggle(i.s, attach_ok)} :
         /\ boots' = [n |-> boots.n + 1, load_ok |-> settingsLoad(ZeroConfig, nvs).ok,
                      hold |-> hold]
         /\ g_settings' = IF hold THEN rs.cfg ELSE si.cfg
         /\ nvs' = IF hold THEN rs.blob ELSE si.blob
         /\ g_errors' = IF hold \/ gps_ok THEN {} ELSE {ERR_GPS}
         /\ iridium' = iridiumInit(g_settings'.iridium, TRUE)
         /\ servo' = IF hold THEN ServoStatics ELSE w.s
         /\ last_call' = IF hold THEN NoCall
                         ELSE [op |-> "Wiggle", ret |-> w.ret, writes |-> w.writes]
         /\ angle_log' = IF hold THEN <<>> ELSE i.writes \o w.writes
         /\ n_calls' = IF hold THEN 0 ELSE 2
         /\ phase' = IF hold THEN "restart" ELSE "run"
    /\ millis' = 0
    /\ g_state' = stateInit(0)
    /\ g_readings' = readingsInit
    /\ s_launch' = resetLaunchDetectionRuntime
    /\ g_bucketA_true_s' = ZeroAccum
    /\ g_bucketB_true_s' = ZeroAccum
    /\ sd_line' = NoLine
    /\ last_tick' = NoTick
    /\ hist' = NoHist
    /\ UNCHANGED <<sched_log, web>>

ConfigLoopIdle ==
    /\ phase = "run"
    /\ loopNoTick(MaxConfigTicks)

ConfigLoopTick ==
    /\ phase = "run"
    /\ loopTick(MaxConfigTicks, SchedEnvs(g_settings), {"ok"}, {NoSession})

\* loop(): webconfigPollButton sees the release of a long press and calls
\* webconfigEnter, which serves requests until it restarts the device.
EnterConfig ==
    /\ phase = "run"
    /\ phase' = "config"
    /\ web' = NoRequest
    /\ UNCHANGED <<millis, g_settings, g_state, g_readings, s_launch, g_errors,
                   g_bucketA_true_s, g_bucketB_true_s, iridium, sd_line, last_tick,
                   hist, sched_log, nvs, boots, servo, last_call, n_calls, angle_log>>

\* POST /save, and the g_saved_ok branch of the serving loop.
HandleSave ==
    /\ phase = "config"
    /\ web.n < MaxRequests
    /\ \E form \in Forms, write_ok \in BOOLEAN :
       \E r \in {handleSave(g_settings, nvs, form, write_ok)} :
         /\ g_settings' = r.cfg
         /\ nvs' = r.blob
         /\ web' = [op |-> "save", ok |-> r.g_saved_ok, n |-> web.n + 1]
         /\ phase' = IF r.g_saved_ok THEN "saved" ELSE "config"
    /\ UNCHANGED <<millis, g_state, g_readings, s_launch, g_errors,
                   g_bucketA_true_s, g_bucketB_true_s, iridium, sd_line, last_tick,
                   hist, sched_log, boots, servo, last_call, n_calls, angle_log>>

\* POST /lock and POST /release: the handlers only answer with a page.
HandleLock ==
    /\ phase = "config"
    /\ web.n < MaxRequests
    /\ web' = [op |-> "lock", ok |-> TRUE, n |-> web.n + 1]
    /\ UNCHANGED <<millis, g_settings, g_state, g_readings, s_launch, g_errors,
                   g_bucketA_true_s, g_bucketB_true_s, iridium, sd_line, last_tick,
                   hist, sched_log, nvs, boots, servoVars>>

HandleRelease ==
    /\ phase = "config"
    /\ web.n < MaxRequests
    /\ web' = [op |-> "release", ok |-> TRUE, n |-> web.n + 1]
    /\ UNCHANGED <<millis, g_settings, g_state, g_readings, s_launch, g_errors,
                   g_bucketA_true_s, g_bucketB_true_s, iridium, sd_line, last_tick,
                   hist, sched_log, nvs, boots, servoVars>>

\* POST /exit or the 5 minute timeout: the serving loop restarts the device.
HandleExit ==
    /\ phase = "config"
    /\ \E op \in {"exit", "timeout"} :
         web' = [op |-> op, ok |-> TRUE, n |-> web.n]
    /\ phase' = "restart"
    /\ UNCHANGED <<millis, g_settings, g_state, g_readings, s_launch, g_errors,
                   g_bucketA_true_s, g_bucketB_true_s, iridium, sd_line, last_tick,
                   hist, sched_log, nvs, boots, servo, last_call, n_calls, angle_log>>

\* POST /defaults, and the g_defaults_requested branch of the serving loop.
HandleDefaults ==
    /\ phase = "config"
    /\ \E write_ok \in BOOLEAN :
       \E rs \in {settingsResetToDefaultsAndSave(g_settings, nvs, write_ok)} :
         /\ g_settings' = rs.cfg
         /\ nvs' = rs.blob
    /\ web' = [op |-> "defaults", ok |-> TRUE, n |-> web.n]
    /\ phase' = "restart"
    /\ UNCHANGED <<millis, g_state, g_readings, s_launch, g_errors,
                   g_bucketA_true_s, g_bucketB_true_s, iridium, sd_line, last_tick,
                   hist, sched_log, boots, servo, last_call, n_calls, angle_log>>

NextConfig ==
    \/ Boot
    \/ ConfigLoopIdle
    \/ ConfigLoopTick
    \/ EnterConfig
    \/ HandleSave
    \/ HandleLock
    \/ HandleRelease
    \/ HandleExit
    \/ HandleDefaults

SpecConfig == InitConfig /\ [][NextConfig]_vars


\* setup() has just run without the factory-reset hold and settingsLoad
\* returned false: the blob was missing or failed validation.
BootFellBack ==
    /\ boots'.n = boots.n + 1
    /\ ~boots'.hold
    /\ ~boots'.load_ok

FallbackFromEveryBlob ==
    [][(boots.n = 0 /\ boots'.n = 1 /\ nvs # StorageBlob(RichConfig)) => ~boots'.load_ok]_vars


\* C35: the release latch is never set without a cut decision: in every
\* reachable state servoReleaseIsReleased() implies cut_fired; the boot wiggle,
\* error events and the config-mode /lock and /release handlers never set it.
C35_ReleasedImpliesCutFired ==
    servoReleaseIsReleased(servo) => g_state.cut_fired

\* A cut fired and released the payload; config mode was then entered and a
\* POST /release handled: the latch is the one the cut set.
C35_Witness ==
    /\ phase = "config"
    /\ web.op = "release"
    /\ servoReleaseIsReleased(servo)
    /\ g_state.cut_fired

\* POST /lock and POST /release leave the servo alone.
WebHandlersLeaveServo ==
    [][web'.op \in {"lock", "release"} /\ web'.n # web.n => UNCHANGED servo]_vars

\* C40: every configuration the config-UI validator accepts and settingsSave
\* stores is accepted unchanged by settingsLoad at the next boot.
C40_SaveThenLoadRoundTrip ==
    phase = "saved" => settingsLoad(ZeroConfig, nvs) = [ok |-> TRUE, cfg |-> g_settings]

\* The state of C40's failing input: the last request was a successful save, the
\* boot that followed rejected the stored blob and the device runs on the defaults.
C40_SavedRulesReplaced ==
    /\ phase = "run"
    /\ web.op = "save" /\ web.ok
    /\ boots.n = 2 /\ ~boots.load_ok /\ ~boots.hold
    /\ g_settings = settingsApplyDefaults(ZeroConfig)

====
